---- MODULE Spec2Model ----
(***************************************************************************)
(* Model of the AI exam-generation backend: generate_exam, get_full_exam, *)
(* export_exam_pdf and export_exam_docx of                                *)
(* controllers/exam_generation_controller.py, and update_exam and         *)
(* delete_exam of controllers/exam_controller.py, over the tables of      *)
(* orm_models.py.                                                         *)
(*                                                                         *)
(* A text is a sequence of tokens.  A JSON value is a record with a       *)
(* "kind"; Python's subscripting and iteration of such values, with the   *)
(* exceptions they raise, are modelled by the operators below.            *)
(***************************************************************************)
EXTENDS Integers, Sequences, FiniteSets, TLC

\* Highest Exam primary key the database hands out in a checked run.
MaxExamId == 1

----------------------------------------------------------------------------
(* Tokens of a text *)

Prose(s) == [kind |-> "prose", s |-> s]
LBrace == [kind |-> "lbrace"]
RBrace == [kind |-> "rbrace"]
\* The well-formed member list of a JSON object, standing between its braces.
Members(v) == [kind |-> "members", value |-> v]
\* A whole serialized JSON value, as json.dumps writes it.
Json(v) == [kind |-> "json", value |-> v]

----------------------------------------------------------------------------
(* JSON values *)

JList(elems) == [kind |-> "list", elems |-> elems]
JString(s) == [kind |-> "string", s |-> s]
JNumber == [kind |-> "number"]
JNull == [kind |-> "null"]
\* A JSON object that is not an exercise block or an item: only its number of
\* keys matters (iterating a dict yields its keys, which are strings).
JDict(n) == [kind |-> "dict", n |-> n]

Item(q, a) ==
    [kind |-> "object", has_question |-> TRUE, question |-> q,
     has_answer |-> TRUE, answer |-> a, has_options |-> FALSE, options |-> <<>>]
ItemOpts(q, a, opts) ==
    [kind |-> "object", has_question |-> TRUE, question |-> q,
     has_answer |-> TRUE, answer |-> a, has_options |-> TRUE, options |-> opts]
ItemNoQuestion(a) ==
    [kind |-> "object", has_question |-> FALSE, question |-> "",
     has_answer |-> TRUE, answer |-> a, has_options |-> FALSE, options |-> <<>>]
ItemNoAnswer(q) ==
    [kind |-> "object", has_question |-> TRUE, question |-> q,
     has_answer |-> FALSE, answer |-> "", has_options |-> FALSE, options |-> <<>>]

Block(type, instructions, items) ==
    [kind |-> "object",
     has_exercise_type |-> TRUE, exercise_type |-> type,
     has_instructions |-> TRUE, instructions |-> instructions,
     has_items |-> TRUE, items |-> items]
BlockNoInstructions(type, items) ==
    [kind |-> "object",
     has_exercise_type |-> TRUE, exercise_type |-> type,
     has_instructions |-> FALSE, instructions |-> "",
     has_items |-> TRUE, items |-> items]
BlockNoType(instructions, items) ==
    [kind |-> "object",
     has_exercise_type |-> FALSE, exercise_type |-> JNull,
     has_instructions |-> TRUE, instructions |-> instructions,
     has_items |-> TRUE, items |-> items]

ExamObject(exercises) ==
    [kind |-> "object", has_exercises |-> TRUE, exercises |-> exercises]
ObjectWithoutExercises ==
    [kind |-> "object", has_exercises |-> FALSE, exercises |-> JNull]

----------------------------------------------------------------------------
(* Python semantics of the values *)

\* for x in v: the elements a loop over v visits, or a TypeError.
Iterate(v) ==
    CASE v.kind = "list" -> [ok |-> TRUE, elems |-> v.elems]
      [] v.kind = "dict" -> [ok |-> TRUE, elems |-> [i \in 1..v.n |-> JString("key")]]
      [] v.kind = "string" ->
             [ok |-> TRUE, elems |-> [i \in 1..Len(v.s) |-> JString("c")]]
      [] v.kind = "object" -> [ok |-> TRUE, elems |-> <<JString("key")>>]
      [] OTHER -> [ok |-> FALSE, elems |-> <<>>]

\* name.lower() and the database's lower(name).
lower(name) ==
    CASE name = "Cloze" -> "cloze"
      [] name = "CLOZE" -> "cloze"
      [] name = "Reading Comprehension" -> "reading comprehension"
      [] name = "READING COMPREHENSION" -> "reading comprehension"
      [] name = "Essay" -> "essay"
      [] name = "Matching" -> "matching"
      [] name = "Crossword" -> "crossword"
      [] name = "Reading" -> "reading"
      [] name = "Cloze test" -> "cloze test"
      [] OTHER -> name

----------------------------------------------------------------------------
(* extract_json and json.loads *)

RECURSIVE find(_, _, _)
\* text.find(kind) from 0-based position i: the first index, or -1.
find(text, kind, i) ==
    IF i >= Len(text) THEN -1
    ELSE IF text[i + 1].kind = kind THEN i
    ELSE find(text, kind, i + 1)

RECURSIVE rfind(_, _, _)
\* text.rfind(kind) from 0-based position i downwards: the last index, or -1.
rfind(text, kind, i) ==
    IF i < 0 THEN -1
    ELSE IF text[i + 1].kind = kind THEN i
    ELSE rfind(text, kind, i - 1)

\* text[start:stop] for 0 <= start.
Slice(text, start, stop) ==
    SubSeq(text, start + 1, IF stop > Len(text) THEN Len(text) ELSE stop)

extract_json(text) ==
    LET start == find(text, "lbrace", 0)
        end == rfind(text, "rbrace", Len(text) - 1)
    IN  IF start = -1 \/ end = -1
        THEN [ok |-> FALSE, text |-> <<>>]
        ELSE [ok |-> TRUE, text |-> Slice(text, start, end + 1)]

json_dumps(v) == <<Json(v)>>

\* json.loads: the value of a well-formed text, or a JSONDecodeError.
json_loads(text) ==
    IF Len(text) = 1 /\ text[1].kind = "json"
    THEN [ok |-> TRUE, value |-> text[1].value]
    ELSE IF /\ Len(text) = 3
            /\ text[1].kind = "lbrace"
            /\ text[2].kind = "members"
            /\ text[3].kind = "rbrace"
    THEN [ok |-> TRUE, value |-> text[2].value]
    ELSE [ok |-> FALSE, value |-> JNull]

----------------------------------------------------------------------------
(* The state *)

VARIABLES
    Class,                  \* table class: id -> row
    Exercise,               \* table exercise (the catalog of exercise types): id -> row
    Exam,                   \* table exam, committed rows: id -> row
    exam_exercise,          \* association table, committed: {<<exam_id, exercise_id>>}
    ExamExerciseInstance,   \* table of generated instances, committed, in insertion order
    next_exam_id,           \* the AUTO_INCREMENT counter of table exam
    workers,                \* the threads that serve generate requests
    pc,                     \* worker -> where its generate_exam call stands
    session,                \* worker -> the uncommitted work of its db.session
    last,                   \* the request served last and the response it got
    Level,                  \* table level: id -> row
    User,                   \* table user: id -> row
    redis_client,           \* the Redis store: {<<key, value>>}
    now,                    \* datetime.datetime.now()
    registration            \* worker -> where its register_student call stands

dbVars == <<Class, Exercise, Exam, exam_exercise, ExamExerciseInstance>>
\* What the exam handlers never touch.
restVars == <<Level, User, redis_client, now, registration>>
vars == <<Class, Exercise, Exam, exam_exercise, ExamExerciseInstance,
          next_exam_id, workers, pc, session, last,
          Level, User, redis_client, now, registration>>

AllWorkers == {1, 2}

\* A nullable text column.
Null == [null |-> TRUE, text |-> <<>>]
Text(t) == [null |-> FALSE, text |-> t]

\* Exam(status=..., class_id=..., context=...): a row of table exam.
ExamRow(status, class_id, context) ==
    [status |-> status, class_id |-> class_id, context |-> context,
     generated_snapshot |-> Null, date_deleted |-> FALSE]

\* A session with nothing pending.
NoSession ==
    [exam_id |-> 0, new_exam |-> ExamRow("", 0, ""), exercise_types |-> <<>>,
     rag_calls |-> 0, llm_calls |-> 0]

\* The body of get_full_exam's answer; empty for every other answer.
NoResult == [status |-> "", class_id |-> 0, context |-> "", exercises |-> <<>>]

NoResponse ==
    [op |-> "none", code |-> 0, message |-> "", id |-> 0, name |-> JNull,
     exam_id |-> 0, raw_output |-> Null, rag_calls |-> 0, llm_calls |-> 0,
     result |-> NoResult, document |-> <<>>, rows |-> {}, mail |-> <<>>]

\* jsonify({"message": ...}), code
Response(op, code, message) ==
    [NoResponse EXCEPT !.op = op, !.code = code, !.message = message]

\* exam.generated_exercises: the instances of an exam, in table order.
generated_exercises(instances, exam_id) ==
    SelectSeq(instances, LAMBDA i : i.exam_id = exam_id)

\* exam.exercise_types: the catalog entries associated with an exam.
exercise_types(assoc, exam_id) == {a[2] : a \in {b \in assoc : b[1] = exam_id}}

----------------------------------------------------------------------------
(* generate_exam: parsing and validation of the model output *)

\* Mutant of find_exercise_type: soft-deleted catalog rows do not match.
find_exercise_type_active(exercise_name) ==
    LET hits == {id \in DOMAIN Exercise :
                    /\ ~Exercise[id].date_deleted
                    /\ lower(Exercise[id].name) = lower(exercise_name)}
    IN  IF hits = {} THEN 0
        ELSE CHOOSE id \in hits : \A other \in hits : id <= other

\* Mutant of find_exercise_type: the names are compared as they are written.
find_exercise_type_case_sensitive(exercise_name) ==
    LET hits == {id \in DOMAIN Exercise : Exercise[id].name = exercise_name}
    IN  IF hits = {} THEN 0
        ELSE CHOOSE id \in hits : \A other \in hits : id <= other

\* Exercise.query.filter(lower(Exercise.name) == exercise_name.lower()).first():
\* the id of the matching catalog row, 0 for None.  Soft-deleted rows match too.
find_exercise_type(exercise_name) ==
    LET hits == {id \in DOMAIN Exercise :
                    lower(Exercise[id].name) = lower(exercise_name)}
    IN  IF hits = {} THEN 0
        ELSE CHOOSE id \in hits : \A other \in hits : id <= other

\* Mutant of answers_of: the answer of the first item is left out.
answers_of_without_first(items) ==
    LET it == Iterate(items)
    IN  IF ~it.ok THEN [ok |-> FALSE, answers |-> <<>>]
        ELSE IF \E i \in 1..Len(it.elems) :
                    it.elems[i].kind # "object" \/ ~it.elems[i].has_answer
        THEN [ok |-> FALSE, answers |-> <<>>]
        ELSE [ok |-> TRUE,
              answers |-> [i \in 1..(Len(it.elems) - 1) |-> it.elems[i + 1].answer]]

\* [item["answer"] for item in exercise_block["items"]]
answers_of(items) ==
    LET it == Iterate(items)
    IN  IF ~it.ok THEN [ok |-> FALSE, answers |-> <<>>]
        ELSE IF \E i \in 1..Len(it.elems) :
                    \/ it.elems[i].kind # "object"
                    \/ "has_answer" \notin DOMAIN it.elems[i]
                    \/ ~it.elems[i].has_answer
        THEN [ok |-> FALSE, answers |-> <<>>]
        ELSE [ok |-> TRUE,
              answers |-> [i \in 1..Len(it.elems) |-> it.elems[i].answer]]

\* {"answers": [...]}
AnswerKey(answers) == [kind |-> "answer_key", answers |-> answers]

\* The content payload stored for a block.
content_of(exercise_block) == json_dumps(exercise_block.items)

\* ExamExerciseInstance(exam_id=..., exercise_type_id=..., instructions=...,
\* content_json=..., answer_key_json=...), or the exception building it raises.
new_instance(exam_id, exercise_type_id, exercise_block) ==
    LET none == [exam_id |-> 0, exercise_type_id |-> 0, instructions |-> "",
                 content_json |-> <<>>, answer_key_json |-> <<>>]
    IN  IF ~exercise_block.has_instructions \/ ~exercise_block.has_items
        THEN [ok |-> FALSE, row |-> none]
        ELSE LET a == answers_of(exercise_block.items)
             IN  IF ~a.ok THEN [ok |-> FALSE, row |-> none]
                 ELSE [ok |-> TRUE,
                       row |-> [exam_id |-> exam_id,
                                exercise_type_id |-> exercise_type_id,
                                instructions |-> exercise_block.instructions,
                                content_json |-> content_of(exercise_block),
                                answer_key_json |-> json_dumps(AnswerKey(a.answers))]]

RECURSIVE add_instances_skip_unknown(_, _, _, _)
\* Mutant of add_instances: a block of an unknown type is skipped and the
\* blocks before and after it are kept.
add_instances_skip_unknown(blocks, i, exam_id, added) ==
    IF i > Len(blocks) THEN [outcome |-> "ok", name |-> JNull, added |-> added]
    ELSE IF \/ blocks[i].kind # "object"
            \/ ~blocks[i].has_exercise_type
            \/ blocks[i].exercise_type.kind # "string"
    THEN [outcome |-> "exception", name |-> JNull, added |-> added]
    ELSE IF find_exercise_type(blocks[i].exercise_type.s) = 0
    THEN add_instances_skip_unknown(blocks, i + 1, exam_id, added)
    ELSE LET instance == new_instance(exam_id,
                                      find_exercise_type(blocks[i].exercise_type.s),
                                      blocks[i])
         IN  IF ~instance.ok
             THEN [outcome |-> "exception", name |-> JNull, added |-> added]
             ELSE add_instances_skip_unknown(blocks, i + 1, exam_id,
                                             Append(added, instance.row))

RECURSIVE add_instances(_, _, _, _)
\* The loop over parsed_output["exercises"] from block i on, `added` being the
\* instances already added to the session.
add_instances(blocks, i, exam_id, added) ==
    IF i > Len(blocks) THEN [outcome |-> "ok", name |-> JNull, added |-> added]
    ELSE
      LET exercise_block == blocks[i] IN
      IF \/ exercise_block.kind # "object"
         \/ "has_exercise_type" \notin DOMAIN exercise_block
         \/ ~exercise_block.has_exercise_type
         \/ exercise_block.exercise_type.kind # "string"
      THEN [outcome |-> "exception", name |-> JNull, added |-> added]
      ELSE
        LET exercise_name == exercise_block.exercise_type
            exercise_type == find_exercise_type(exercise_name.s)
        IN  IF exercise_type = 0
            THEN [outcome |-> "not_found", name |-> exercise_name, added |-> added]
            ELSE LET instance == new_instance(exam_id, exercise_type, exercise_block)
                 IN  IF ~instance.ok
                     THEN [outcome |-> "exception", name |-> JNull, added |-> added]
                     ELSE add_instances(blocks, i + 1, exam_id,
                                        Append(added, instance.row))

\* Mutant of parse_model_output: a missing "exercises" key is read as no
\* exercises and raises nothing.
parse_model_output_optional_key(raw_output, exam_id) ==
    LET failed == [outcome |-> "exception", name |-> JNull, added |-> <<>>,
                   has_exercises |-> FALSE]
        cleaned_json == extract_json(raw_output)
        parsed_output == json_loads(cleaned_json.text)
    IN  IF ~cleaned_json.ok \/ ~parsed_output.ok THEN failed
        ELSE IF ~parsed_output.value.has_exercises
        THEN [outcome |-> "ok", name |-> JNull, added |-> <<>>, has_exercises |-> FALSE]
        ELSE IF ~Iterate(parsed_output.value.exercises).ok THEN failed
        ELSE LET r == add_instances(Iterate(parsed_output.value.exercises).elems,
                                    1, exam_id, <<>>)
             IN  [outcome |-> r.outcome, name |-> r.name, added |-> r.added,
                  has_exercises |-> TRUE]

\* Mutant of parse_model_output: an empty list of exercises is refused.
parse_model_output_requires_blocks(raw_output, exam_id) ==
    LET failed == [outcome |-> "exception", name |-> JNull, added |-> <<>>,
                   has_exercises |-> FALSE]
        cleaned_json == extract_json(raw_output)
        parsed_output == json_loads(cleaned_json.text)
    IN  IF ~cleaned_json.ok \/ ~parsed_output.ok THEN failed
        ELSE IF ~parsed_output.value.has_exercises THEN failed
        ELSE IF ~Iterate(parsed_output.value.exercises).ok THEN failed
        ELSE IF Iterate(parsed_output.value.exercises).elems = <<>> THEN failed
        ELSE LET r == add_instances(Iterate(parsed_output.value.exercises).elems,
                                    1, exam_id, <<>>)
             IN  [outcome |-> r.outcome, name |-> r.name, added |-> r.added,
                  has_exercises |-> TRUE]

\* Mutant of parse_model_output: the loop starts at the second block.
parse_model_output_from_second(raw_output, exam_id) ==
    LET failed == [outcome |-> "exception", name |-> JNull, added |-> <<>>,
                   has_exercises |-> FALSE]
        cleaned_json == extract_json(raw_output)
        parsed_output == json_loads(cleaned_json.text)
    IN  IF ~cleaned_json.ok \/ ~parsed_output.ok THEN failed
        ELSE IF ~parsed_output.value.has_exercises THEN failed
        ELSE IF ~Iterate(parsed_output.value.exercises).ok THEN failed
        ELSE LET r == add_instances(Iterate(parsed_output.value.exercises).elems,
                                    2, exam_id, <<>>)
             IN  [outcome |-> r.outcome, name |-> r.name, added |-> r.added,
                  has_exercises |-> TRUE]

\* The try block: extract_json, json.loads and the loop.
parse_model_output(raw_output, exam_id) ==
    LET failed == [outcome |-> "exception", name |-> JNull, added |-> <<>>,
                   has_exercises |-> FALSE]
        cleaned_json == extract_json(raw_output)
    IN  IF ~cleaned_json.ok THEN failed
        ELSE
          LET parsed_output == json_loads(cleaned_json.text) IN
          IF ~parsed_output.ok THEN failed
          ELSE IF parsed_output.value.kind # "object" THEN failed
          ELSE IF ~parsed_output.value.has_exercises THEN failed
          ELSE
            LET blocks == Iterate(parsed_output.value.exercises) IN
            IF ~blocks.ok THEN failed
            ELSE LET r == add_instances(blocks.elems, 1, exam_id, <<>>)
                 IN  [outcome |-> r.outcome, name |-> r.name, added |-> r.added,
                      has_exercises |-> TRUE]

----------------------------------------------------------------------------
(* The inputs: request bodies and the texts the generation service returns *)

\* bool(v) of a JSON value.
Truthy(v) ==
    CASE v.kind = "list" -> Len(v.elems) > 0
      [] v.kind = "string" -> v.s # ""
      [] v.kind = "dict" -> v.n > 0
      [] v.kind = "null" -> FALSE
      [] OTHER -> TRUE

\* request.get_json(silent=True).  class_id 0, context "" and exercise_type_ids
\* null stand for an absent key; has_body FALSE for a missing or unreadable body.
NoBody ==
    [has_body |-> FALSE, class_id |-> 0, context |-> "", exercise_type_ids |-> JNull]
GenerateBodies ==
    {NoBody}
    \cup [has_body : {TRUE}, class_id : {1}, context : {"Focus on past tense"},
          exercise_type_ids : {JNull, JString("1,2"), JList(<<>>), JList(<<1>>),
                               JList(<<1, 2>>), JList(<<1, 4, 3>>), JList(<<3, 4>>)}]
    \cup [has_body : {TRUE}, class_id : {0, 2, 9},
          context : {"", "Focus on past tense"},
          exercise_type_ids : {JList(<<1>>), JList(<<4>>)}]

ClozeBlock ==
    Block(JString("cloze"), "Fill the gaps",
          JList(<<ItemOpts("I ___ tired", "am", <<"am", "is">>),
                  Item("She ___ here", "is")>>))
ReadingBlock ==
    Block(JString("READING COMPREHENSION"), "Read and answer",
          JList(<<Item("Who is Tom?", "a teacher")>>))

\* Sure! Here's your exam: {"exercises": [...]} Hope this helps!
TextOf(object) ==
    <<Prose("Sure! Here's your exam:"), LBrace, Members(object), RBrace,
      Prose("Hope this helps!")>>

\* Texts from which generate_exam builds an exam.
AcceptedOutputs ==
    {<<Prose("preamble"), LBrace, Members(ExamObject(JList(<<>>))), RBrace,
       Prose("trailing")>>,
     <<LBrace, Members(ExamObject(JList(<<ClozeBlock, ReadingBlock>>))), RBrace>>,
     TextOf(ExamObject(JList(<<Block(JString("Cloze"), "Complete",
                                     JList(<<ItemNoQuestion("went")>>))>>))),
     TextOf(ExamObject(JString("")))}

\* Texts generate_exam refuses.
RefusedOutputs ==
    {<<Prose("I cannot help with that")>>,
     <<RBrace, Prose("oops"), LBrace>>,
     <<LBrace, Prose("exercises: ["), RBrace>>,
     TextOf(ObjectWithoutExercises),
     TextOf(ExamObject(JNull)),
     TextOf(ExamObject(JDict(2))),
     TextOf(ExamObject(JList(<<ClozeBlock, Block(JString("Matching"), "Match",
                                                 JList(<<Item("a", "b")>>))>>))),
     TextOf(ExamObject(JList(<<Block(JString("Crossword"), "Solve",
                                     JList(<<Item("a", "b")>>))>>))),
     TextOf(ExamObject(JList(<<ClozeBlock,
                               BlockNoInstructions(JString("Cloze"),
                                                   JList(<<Item("a", "b")>>))>>))),
     TextOf(ExamObject(JList(<<BlockNoType("Solve", JList(<<Item("a", "b")>>))>>))),
     TextOf(ExamObject(JList(<<Block(JNumber, "Solve", JList(<<Item("a", "b")>>))>>))),
     TextOf(ExamObject(JList(<<Block(JString("Cloze"), "Complete",
                                     JList(<<Item("a", "b"), ItemNoAnswer("c")>>))>>))),
     TextOf(ExamObject(JList(<<Block(JString("Cloze"), "Complete", JNull)>>)))}

\* response.json()["response"] of the generation service.
LlmOutputs == AcceptedOutputs \cup RefusedOutputs

----------------------------------------------------------------------------
(* The database as the application finds it *)

\* A date_deleted of 0 is NULL; any other value is the time of the deletion.
\* Class 1 is active and has room for one more student; class 2 was deleted
\* at time 1.
InitialClass ==
    [id \in {1, 2} |->
        [class_code |-> IF id = 1 THEN "B1-A" ELSE "B2-C",
         description |-> IF id = 1 THEN "English I" ELSE "English II",
         suggested_level |-> IF id = 1 THEN "B1" ELSE "B2",
         max_capacity |-> 2,
         date_deleted |-> IF id = 2 THEN 1 ELSE 0]]

\* Level 1 is active, level 2 was deleted at time 1.
InitialLevel ==
    [id \in {1, 2} |->
        [description |-> IF id = 1 THEN "Beginner" ELSE "Advanced",
         cosmetic |-> "badge",
         min_xp |-> IF id = 1 THEN 0 ELSE 100,
         date_deleted |-> IF id = 2 THEN 1 ELSE 0]]

\* One active student of class 1 and one student of it that was deleted.
InitialUser ==
    [id \in {1, 2} |->
        [email |-> IF id = 1 THEN "ana@x.io" ELSE "old@x.io",
         dni |-> IF id = 1 THEN "111" ELSE "999",
         student_class_id |-> 1,
         date_deleted |-> IF id = 2 THEN 1 ELSE 0]]

NoRegistration == [stage |-> "idle", email |-> "", dni |-> "", class_id |-> 0]

InitRest ==
    /\ Level = InitialLevel
    /\ User = InitialUser
    /\ redis_client = {}
    /\ now = 2
    /\ registration = [p \in AllWorkers |-> NoRegistration]

Init ==
    /\ Class = InitialClass
    /\ Exercise = [id \in {1, 2, 3} |->
                     [name |-> CASE id = 1 -> "Cloze"
                                 [] id = 2 -> "Reading Comprehension"
                                 [] OTHER -> "Essay",
                      date_deleted |-> (id = 3)]]
    /\ Exam = <<>>
    /\ exam_exercise = {}
    /\ ExamExerciseInstance = <<>>
    /\ next_exam_id = 1
    /\ workers = {1}
    /\ pc = [p \in AllWorkers |-> "idle"]
    /\ session = [p \in AllWorkers |-> NoSession]
    /\ last = NoResponse
    /\ InitRest

----------------------------------------------------------------------------
(* Transactions *)

\* The committed tables.
Database ==
    [Exam |-> Exam, exam_exercise |-> exam_exercise,
     ExamExerciseInstance |-> ExamExerciseInstance]

\* Mutant of commit: the exam is associated with the types of its instances.
commit_types_of_instances(db, s, instances) ==
    [Exam |-> [id \in DOMAIN db.Exam \cup {s.exam_id} |->
                 IF id = s.exam_id THEN s.new_exam ELSE db.Exam[id]],
     exam_exercise |->
         db.exam_exercise \cup
         {<<s.exam_id, instances[i].exercise_type_id>> : i \in 1..Len(instances)},
     ExamExerciseInstance |-> db.ExamExerciseInstance \o instances]

\* db.session.commit(): the flushed exam, its associations and the added
\* instances become rows of the committed tables.
commit(db, s, instances) ==
    [Exam |-> [id \in DOMAIN db.Exam \cup {s.exam_id} |->
                 IF id = s.exam_id THEN s.new_exam ELSE db.Exam[id]],
     exam_exercise |->
         db.exam_exercise \cup
         {<<s.exam_id, s.exercise_types[i]>> : i \in 1..Len(s.exercise_types)},
     ExamExerciseInstance |-> db.ExamExerciseInstance \o instances]

\* Mutant of rollback: the flushed rows stay, as after a commit.
rollback_commits(db, s, instances) == commit(db, s, instances)

\* db.session.rollback(): nothing of the session reaches the committed tables.
rollback(db, s, instances) == db

----------------------------------------------------------------------------
(* generate_exam: request validation, lines 57-90 *)

\* Lines 57-69: the checks on the body.
validate_body(data) ==
    IF \/ ~data.has_body
       \/ (data.class_id = 0 /\ data.context = "" /\ data.exercise_type_ids.kind = "null")
    THEN Response("generate", 400, "Invalid JSON body")
    ELSE IF data.class_id = 0 \/ data.context = "" \/ ~Truthy(data.exercise_type_ids)
    THEN Response("generate", 400, "Missing required fields")
    ELSE IF data.exercise_type_ids.kind # "list" \/ ~Truthy(data.exercise_type_ids)
    THEN Response("generate", 400, "exercise_type_ids must be a non-empty list")
    ELSE NoResponse

RECURSIVE first_invalid_exercise_type(_, _)
\* Lines 84-90: the first id, in request order, that Exercise.query.get does not
\* find or finds soft-deleted; 0 when every id is valid.
first_invalid_exercise_type(ids, i) ==
    IF i > Len(ids) THEN 0
    ELSE IF ids[i] \notin DOMAIN Exercise \/ Exercise[ids[i]].date_deleted
    THEN ids[i]
    ELSE first_invalid_exercise_type(ids, i + 1)

\* Mutant of validate_references: the exercise types are checked before the class.
validate_references_types_first(data) ==
    LET ex_id == first_invalid_exercise_type(data.exercise_type_ids.elems, 1)
    IN  IF ex_id # 0
        THEN [Response("generate", 400, "Invalid exercise type id") EXCEPT !.id = ex_id]
        ELSE IF data.class_id \notin DOMAIN Class \/ Class[data.class_id].date_deleted # 0
        THEN Response("generate", 404, "Class not found or deleted")
        ELSE NoResponse

\* Lines 75-90: the checks against the class and exercise tables.
validate_references(data) ==
    IF data.class_id \notin DOMAIN Class \/ Class[data.class_id].date_deleted # 0
    THEN Response("generate", 404, "Class not found or deleted")
    ELSE LET ex_id == first_invalid_exercise_type(data.exercise_type_ids.elems, 1)
         IN  IF ex_id # 0
             THEN [Response("generate", 400, "Invalid exercise type id")
                     EXCEPT !.id = ex_id]
             ELSE NoResponse

\* The response of the validation, NoResponse when the request passes.
validate(data) ==
    LET body == validate_body(data)
    IN  IF body.code # 0 THEN body ELSE validate_references(data)

\* The ids the exam table hands out: MaxExamId, and one more for each further
\* worker so that the requests of all workers can be in flight together.
ExamIdCap == MaxExamId + Cardinality(workers) - 1

\* Lines 57-105: validation, then the Exam in GENERATING state is added and flushed.
generate_exam_begin(p, data, flush_ok) ==
    /\ p \in workers
    /\ pc[p] = "idle"
    /\ LET refused == validate(data) IN
       IF refused.code # 0
       THEN /\ last' = refused
            /\ UNCHANGED <<next_exam_id, pc, session>>
       ELSE IF ~flush_ok
       THEN \* SQLAlchemyError raised by flush: line 195
            /\ last' = Response("generate", 500, "Database error")
            /\ UNCHANGED <<next_exam_id, pc, session>>
       ELSE /\ next_exam_id <= ExamIdCap
            /\ session' = [session EXCEPT ![p] =
                   [exam_id |-> next_exam_id,
                    new_exam |-> ExamRow("GENERATING", data.class_id, data.context),
                    exercise_types |-> data.exercise_type_ids.elems,
                    rag_calls |-> 0, llm_calls |-> 0]]
            /\ next_exam_id' = next_exam_id + 1
            /\ pc' = [pc EXCEPT ![p] = "created"]
            /\ last' = NoResponse
    /\ UNCHANGED <<dbVars, workers, restVars>>

----------------------------------------------------------------------------
(* generate_exam: retrieval and generation, lines 107-134 *)

\* Mutant of failed: the handler commits what the session holds.
failed_commits(db, s, instances, response) ==
    [db |-> commit(db, s, instances), response |-> response]

\* What is left of a request that ends without commit: lines 195-201.
failed(db, s, instances, response) ==
    [db |-> rollback(db, s, instances), response |-> response]

\* retrieve_course_context returns (ok) or raises (a transport error, a non-2xx).
generate_exam_retrieve(p, ok) ==
    /\ p \in workers
    /\ pc[p] = "created"
    /\ LET s == [session[p] EXCEPT !.rag_calls = @ + 1] IN
       IF ok
       THEN /\ session' = [session EXCEPT ![p] = s]
            /\ pc' = [pc EXCEPT ![p] = "retrieved"]
            /\ UNCHANGED <<Exam, exam_exercise, ExamExerciseInstance, last>>
       ELSE LET r == failed(Database, s, <<>>,
                            [Response("generate", 500, "Unexpected error")
                               EXCEPT !.rag_calls = s.rag_calls])
            IN  /\ Exam' = r.db.Exam
                /\ exam_exercise' = r.db.exam_exercise
                /\ ExamExerciseInstance' = r.db.ExamExerciseInstance
                /\ last' = r.response
                /\ session' = [session EXCEPT ![p] = NoSession]
                /\ pc' = [pc EXCEPT ![p] = "idle"]
    /\ UNCHANGED <<Class, Exercise, next_exam_id, workers, restVars>>

\* Mutant of generate_exam_llm_error: a failed call of the generation service
\* is repeated once before the request gives up.
generate_exam_llm_error_retry(p) ==
    /\ p \in workers
    /\ pc[p] = "retrieved"
    /\ IF session[p].llm_calls = 0
       THEN /\ session' = [session EXCEPT ![p].llm_calls = 1]
            /\ UNCHANGED <<pc, last>>
       ELSE /\ last' = [Response("generate", 500, "Unexpected error")
                          EXCEPT !.rag_calls = session[p].rag_calls,
                                 !.llm_calls = session[p].llm_calls + 1]
            /\ session' = [session EXCEPT ![p] = NoSession]
            /\ pc' = [pc EXCEPT ![p] = "idle"]
    /\ UNCHANGED <<dbVars, next_exam_id, workers, restVars>>

\* Mutant of generate_exam_llm_error: the rollback empties one session that
\* all requests share.
generate_exam_llm_error_shared_session(p) ==
    /\ p \in workers
    /\ pc[p] = "retrieved"
    /\ last' = [Response("generate", 500, "Unexpected error")
                  EXCEPT !.rag_calls = session[p].rag_calls,
                         !.llm_calls = session[p].llm_calls + 1]
    /\ session' = [q \in AllWorkers |-> NoSession]
    /\ pc' = [q \in AllWorkers |-> "idle"]
    /\ UNCHANGED <<dbVars, next_exam_id, workers, restVars>>

\* generate_exam_from_llm raises (a transport error, a non-2xx, no "response" key).
generate_exam_llm_error(p) ==
    /\ p \in workers
    /\ pc[p] = "retrieved"
    /\ LET s == [session[p] EXCEPT !.llm_calls = @ + 1]
           r == failed(Database, s, <<>>,
                       [Response("generate", 500, "Unexpected error")
                          EXCEPT !.rag_calls = s.rag_calls, !.llm_calls = s.llm_calls])
       IN  /\ Exam' = r.db.Exam
           /\ exam_exercise' = r.db.exam_exercise
           /\ ExamExerciseInstance' = r.db.ExamExerciseInstance
           /\ last' = r.response
    /\ session' = [session EXCEPT ![p] = NoSession]
    /\ pc' = [pc EXCEPT ![p] = "idle"]
    /\ UNCHANGED <<Class, Exercise, next_exam_id, workers, restVars>>

----------------------------------------------------------------------------
(* generate_exam: parsing and persistence, lines 143-193 *)

\* Mutant of persist_results: the snapshot is the extracted JSON slice.
persist_results_cleaned_json(new_exam, raw_output) ==
    [new_exam EXCEPT !.generated_snapshot = Text(extract_json(raw_output).text),
                     !.status = "Pending Review"]

\* Mutant of persist_results: the run ends in the exportable status.
persist_results_generated(new_exam, raw_output) ==
    [new_exam EXCEPT !.generated_snapshot = Text(raw_output),
                     !.status = "GENERATED"]

\* Mutant of persist_results: the final status is not set.
persist_results_without_status(new_exam, raw_output) ==
    [new_exam EXCEPT !.generated_snapshot = Text(raw_output)]

\* Lines 183-184: the snapshot and the final status.
persist_results(new_exam, raw_output) ==
    [new_exam EXCEPT !.generated_snapshot = Text(raw_output),
                     !.status = "Pending Review"]

\* Lines 143-201 for the text the generation service returned: the committed
\* tables and the response the request ends with.
generation_result(db, s, raw_output, commit_ok) ==
    LET parsed == parse_model_output(raw_output, s.exam_id)
        answer(code, message) ==
            [Response("generate", code, message)
               EXCEPT !.raw_output = Text(raw_output),
                      !.rag_calls = s.rag_calls, !.llm_calls = s.llm_calls]
    IN  CASE parsed.outcome = "exception" ->
                 failed(db, s, parsed.added,
                        answer(500, "Model did not return valid JSON"))
          [] parsed.outcome = "not_found" ->
                 failed(db, s, parsed.added,
                        [answer(400, "Exercise type not found in catalog")
                           EXCEPT !.name = parsed.name])
          [] parsed.outcome = "ok" /\ ~parsed.has_exercises ->
                 failed(db, s, parsed.added,
                        answer(500, "Invalid exam structure returned by model"))
          [] parsed.outcome = "ok" /\ parsed.has_exercises /\ ~commit_ok ->
                 failed(db, s, parsed.added, answer(500, "Database error"))
          [] OTHER ->
                 [db |-> commit(db,
                                [s EXCEPT !.new_exam = persist_results(@, raw_output)],
                                parsed.added),
                  response |-> [answer(201, "Exam generated successfully")
                                  EXCEPT !.exam_id = s.exam_id]]

\* generate_exam_from_llm returns raw_output and the request runs to its end.
generate_exam_finish(p, raw_output, commit_ok) ==
    /\ p \in workers
    /\ pc[p] = "retrieved"
    /\ LET s == [session[p] EXCEPT !.llm_calls = @ + 1]
           r == generation_result(Database, s, raw_output, commit_ok)
       IN  /\ Exam' = r.db.Exam
           /\ exam_exercise' = r.db.exam_exercise
           /\ ExamExerciseInstance' = r.db.ExamExerciseInstance
           /\ last' = r.response
    /\ session' = [session EXCEPT ![p] = NoSession]
    /\ pc' = [pc EXCEPT ![p] = "idle"]
    /\ UNCHANGED <<Class, Exercise, next_exam_id, workers, restVars>>

----------------------------------------------------------------------------
(* exam_controller.py: update_exam and delete_exam *)

\* The bodies of PUT /api/exam/<id>.  status "" and class_id 0 stand for an
\* absent key.
UpdateBodies ==
    {[has_body |-> FALSE, status |-> "", class_id |-> 0]} \cup
    [has_body : {TRUE}, status : {"", "GENERATED", "GENERATING"}, class_id : {0, 1, 2}]

\* Exam.query.get(exam_id) finds a row that is not soft-deleted.
exam_found(exam_id) == exam_id \in DOMAIN Exam /\ ~Exam[exam_id].date_deleted

update_exam(exam_id, data) ==
    /\ IF ~exam_found(exam_id)
       THEN /\ last' = Response("update_exam", 404, "Exam not found")
            /\ UNCHANGED Exam
       ELSE IF ~data.has_body \/ (data.status = "" /\ data.class_id = 0)
       THEN /\ last' = Response("update_exam", 400, "Invalid JSON body")
            /\ UNCHANGED Exam
       ELSE IF /\ data.class_id # 0
               /\ (data.class_id \notin DOMAIN Class \/ Class[data.class_id].date_deleted # 0)
       THEN \* returns before the commit: the changed status is never written
            /\ last' = Response("update_exam", 404, "Class not found or deleted")
            /\ UNCHANGED Exam
       ELSE /\ Exam' = [Exam EXCEPT ![exam_id] =
                          [@ EXCEPT !.status = IF data.status = "" THEN @
                                               ELSE data.status,
                                    !.class_id = IF data.class_id = 0 THEN @
                                                 ELSE data.class_id]]
            /\ last' = Response("update_exam", 200, "Exam updated successfully")
    /\ UNCHANGED <<Class, Exercise, exam_exercise, ExamExerciseInstance,
                   next_exam_id, workers, restVars, pc, session>>

\* Mutant of delete_exam: the instances of the exam are deleted with it.
delete_exam_cascade(exam_id) ==
    /\ IF ~exam_found(exam_id)
       THEN /\ last' = Response("delete_exam", 404, "Exam not found")
            /\ UNCHANGED <<Exam, ExamExerciseInstance>>
       ELSE /\ Exam' = [Exam EXCEPT ![exam_id].date_deleted = TRUE]
            /\ ExamExerciseInstance' =
                  SelectSeq(ExamExerciseInstance, LAMBDA i : i.exam_id # exam_id)
            /\ last' = Response("delete_exam", 200, "Exam deleted successfully")
    /\ UNCHANGED <<Class, Exercise, exam_exercise, next_exam_id, workers, restVars, pc, session>>

delete_exam(exam_id) ==
    /\ IF ~exam_found(exam_id)
       THEN /\ last' = Response("delete_exam", 404, "Exam not found")
            /\ UNCHANGED Exam
       ELSE /\ Exam' = [Exam EXCEPT ![exam_id].date_deleted = TRUE]
            /\ last' = Response("delete_exam", 200, "Exam deleted successfully")
    /\ UNCHANGED <<Class, Exercise, exam_exercise, ExamExerciseInstance,
                   next_exam_id, workers, restVars, pc, session>>

----------------------------------------------------------------------------
(* get_full_exam *)

\* Lines 225-232: one entry per instance of the exam.
full_exercises(exam_id) ==
    LET instances == generated_exercises(ExamExerciseInstance, exam_id)
    IN  [i \in 1..Len(instances) |->
           [exercise_type |->
                IF instances[i].exercise_type_id \in DOMAIN Exercise
                THEN JString(Exercise[instances[i].exercise_type_id].name)
                ELSE JNull,
            instructions |-> instances[i].instructions,
            items |-> json_loads(instances[i].content_json).value]]

\* Mutant of full_exam: the exam has to be in status GENERATED.
full_exam_generated_only(exam_id) ==
    IF ~exam_found(exam_id)
    THEN Response("get_full_exam", 404, "Exam not found")
    ELSE IF Exam[exam_id].status # "GENERATED"
    THEN Response("get_full_exam", 400, "Exam not generated yet")
    ELSE [Response("get_full_exam", 200, "")
            EXCEPT !.exam_id = exam_id,
                   !.result = [status |-> Exam[exam_id].status,
                               class_id |-> Exam[exam_id].class_id,
                               context |-> Exam[exam_id].context,
                               exercises |-> full_exercises(exam_id)]]

full_exam(exam_id) ==
    IF ~exam_found(exam_id)
    THEN Response("get_full_exam", 404, "Exam not found")
    ELSE [Response("get_full_exam", 200, "")
            EXCEPT !.exam_id = exam_id,
                   !.result = [status |-> Exam[exam_id].status,
                               class_id |-> Exam[exam_id].class_id,
                               context |-> Exam[exam_id].context,
                               exercises |-> full_exercises(exam_id)]]

get_full_exam(exam_id) ==
    /\ last' = full_exam(exam_id)
    /\ UNCHANGED <<dbVars, next_exam_id, workers, restVars, pc, session>>

----------------------------------------------------------------------------
(* export_exam_pdf and export_exam_docx *)

\* One flowable of the PDF story or one block of the DOCX body.  n is the number
\* a numbered line starts with, the size of a spacer in tenths of an inch, or
\* the class id of the "Class ID" line.
El(el, style, n, text) == [el |-> el, style |-> style, n |-> n, text |-> text]

RECURSIVE Concat(_)
Concat(seqs) == IF seqs = <<>> THEN <<>> ELSE Head(seqs) \o Concat(Tail(seqs))

\* json.loads(instance.content_json)
items_of(instance) == json_loads(instance.content_json).value
\* json.loads(instance.answer_key_json)["answers"]
answers_key_of(instance) == json_loads(instance.answer_key_json).value.answers
\* instance.exercise_type.name
type_name(instance) == Exercise[instance.exercise_type_id].name

\* The item loops of both exports run without an exception: items can be
\* iterated and item['question'] exists for each of them.
renderable(instance) ==
    LET it == Iterate(items_of(instance))
    IN  /\ it.ok
        /\ \A i \in 1..Len(it.elems) :
              /\ it.elems[i].kind = "object"
              /\ "has_question" \in DOMAIN it.elems[i]
              /\ it.elems[i].has_question

\* Mutant of export_refusal: the status is looked at before date_deleted.
export_refusal_status_first(op, exam_id) ==
    IF exam_id \in DOMAIN Exam /\ Exam[exam_id].status # "GENERATED"
    THEN Response(op, 400, "Exam not generated yet")
    ELSE IF ~exam_found(exam_id)
    THEN Response(op, 404, "Exam not found")
    ELSE NoResponse

\* Lines 301-306 and 372-377: the refusals, NoResponse when the export goes on.
export_refusal(op, exam_id) ==
    IF ~exam_found(exam_id)
    THEN Response(op, 404, "Exam not found")
    ELSE IF Exam[exam_id].status # "GENERATED"
    THEN Response(op, 400, "Exam not generated yet")
    ELSE NoResponse

\* Mutant of pdf_items: the items are numbered from 0.
pdf_items_zero_based(items) ==
    Concat([i \in 1..Len(items) |->
              <<El("Paragraph", "Normal", i - 1, items[i].question),
                El("Spacer", "", 1, "")>>
              \o (IF items[i].has_options
                  THEN Concat([j \in 1..Len(items[i].options) |->
                                 <<El("Paragraph", "Normal", 0, items[i].options[j]),
                                   El("Spacer", "", 1, "")>>])
                  ELSE <<>>)])

\* Lines 326-336
pdf_items(items) ==
    Concat([i \in 1..Len(items) |->
              <<El("Paragraph", "Normal", i, items[i].question),
                El("Spacer", "", 1, "")>>
              \o (IF items[i].has_options
                  THEN Concat([j \in 1..Len(items[i].options) |->
                                 <<El("Paragraph", "Normal", 0, items[i].options[j]),
                                   El("Spacer", "", 1, "")>>])
                  ELSE <<>>)])

\* Lines 316-355: the story handed to doc.build.
pdf_elements(instances) ==
    <<El("Paragraph", "Heading1", 0, "Exam"), El("Spacer", "", 3, "")>>
    \o Concat([k \in 1..Len(instances) |->
                 <<El("Paragraph", "Heading2", 0, type_name(instances[k])),
                   El("Spacer", "", 2, ""),
                   El("Paragraph", "Normal", 0, instances[k].instructions),
                   El("Spacer", "", 2, "")>>
                 \o pdf_items(Iterate(items_of(instances[k])).elems)
                 \o <<El("Spacer", "", 3, "")>>])
    \o <<El("PageBreak", "", 0, ""),
         El("Paragraph", "Heading1", 0, "Answer Sheet"),
         El("Spacer", "", 3, "")>>
    \o Concat([k \in 1..Len(instances) |->
                 <<El("Paragraph", "Heading2", 0, type_name(instances[k])),
                   El("Spacer", "", 2, "")>>
                 \o Concat([i \in 1..Len(answers_key_of(instances[k])) |->
                              <<El("Paragraph", "Normal", i,
                                   answers_key_of(instances[k])[i]),
                                El("Spacer", "", 1, "")>>])
                 \o <<El("Spacer", "", 3, "")>>])

\* Mutant of docx_items: the options of an item are left out.
docx_items_without_options(items) ==
    [i \in 1..Len(items) |-> El("paragraph", "", i, items[i].question)]

\* Lines 395-400
docx_items(items) ==
    Concat([i \in 1..Len(items) |->
              <<El("paragraph", "", i, items[i].question)>>
              \o (IF items[i].has_options
                  THEN [j \in 1..Len(items[i].options) |->
                          El("paragraph", "List Bullet", 0, items[i].options[j])]
                  ELSE <<>>)])

\* Lines 379-416: the body of the document.
docx_elements(exam_id, instances) ==
    <<El("heading", "1", 0, "Exam"),
      El("paragraph", "", Exam[exam_id].class_id, "Class ID:"),
      El("paragraph", "", 0, "Date:"),
      El("paragraph", "", 0, "\n")>>
    \o Concat([k \in 1..Len(instances) |->
                 <<El("heading", "2", 0, type_name(instances[k])),
                   El("paragraph", "", 0, instances[k].instructions)>>
                 \o docx_items(Iterate(items_of(instances[k])).elems)
                 \o <<El("paragraph", "", 0, "\n")>>])
    \o <<El("page_break", "", 0, ""), El("heading", "1", 0, "Answer Sheet")>>
    \o Concat([k \in 1..Len(instances) |->
                 <<El("heading", "2", 0, type_name(instances[k]))>>
                 \o [i \in 1..Len(answers_key_of(instances[k])) |->
                       El("paragraph", "", i, answers_key_of(instances[k])[i])]
                 \o <<El("paragraph", "", 0, "\n")>>])

\* The answer of an export: a refusal, the 500 of an exception raised while the
\* document is built, or the document.
exported(op, exam_id) ==
    LET refusal == export_refusal(op, exam_id)
        instances == generated_exercises(ExamExerciseInstance, exam_id)
    IN  IF refusal.code # 0 THEN refusal
        ELSE IF \E k \in 1..Len(instances) : ~renderable(instances[k])
        THEN Response(op, 500, "Internal Server Error")
        ELSE [Response(op, 200, "")
                EXCEPT !.exam_id = exam_id,
                       !.document = IF op = "export_exam_pdf"
                                    THEN pdf_elements(instances)
                                    ELSE docx_elements(exam_id, instances)]

\* Mutant of export_exam_pdf: a served exam is marked as deleted.
export_exam_pdf_once(exam_id) ==
    /\ last' = exported("export_exam_pdf", exam_id)
    /\ Exam' = IF exported("export_exam_pdf", exam_id).code = 200
               THEN [Exam EXCEPT ![exam_id].date_deleted = TRUE]
               ELSE Exam
    /\ UNCHANGED <<Class, Exercise, exam_exercise, ExamExerciseInstance,
                   next_exam_id, workers, restVars, pc, session>>

export_exam_pdf(exam_id) ==
    /\ last' = exported("export_exam_pdf", exam_id)
    /\ UNCHANGED <<dbVars, next_exam_id, workers, restVars, pc, session>>

export_exam_docx(exam_id) ==
    /\ last' = exported("export_exam_docx", exam_id)
    /\ UNCHANGED <<dbVars, next_exam_id, workers, restVars, pc, session>>

----------------------------------------------------------------------------

\* The exam ids of the requests: every id handed out and one never handed out.
ExamIds == 1..(MaxExamId + 1)

Next ==
    \/ \E p \in workers, data \in GenerateBodies :
           \E flush_ok \in (IF validate(data).code = 0 THEN BOOLEAN ELSE {TRUE}) :
               generate_exam_begin(p, data, flush_ok)
    \/ \E p \in workers, ok \in BOOLEAN : generate_exam_retrieve(p, ok)
    \/ \E p \in workers : generate_exam_llm_error(p)
    \/ \E p \in workers, raw_output \in LlmOutputs, commit_ok \in BOOLEAN :
           generate_exam_finish(p, raw_output, commit_ok)
    \/ \E exam_id \in ExamIds, data \in UpdateBodies : update_exam(exam_id, data)
    \/ \E exam_id \in ExamIds : delete_exam(exam_id)
    \/ \E exam_id \in ExamIds : get_full_exam(exam_id)
    \/ \E exam_id \in ExamIds : export_exam_pdf(exam_id)
    \/ \E exam_id \in ExamIds : export_exam_docx(exam_id)

Spec == Init /\ [][Next]_vars

----------------------------------------------------------------------------
(* exercise_controller.py: delete_exercise, while generate_exam runs *)

\* The exercise ids of the requests: the catalog rows and one id that is none.
ExerciseIds == {1, 2, 3, 4}

delete_exercise(exercise_id) ==
    /\ IF exercise_id \notin DOMAIN Exercise \/ Exercise[exercise_id].date_deleted
       THEN /\ last' = Response("delete_exercise", 404, "Exercise not found")
            /\ UNCHANGED Exercise
       ELSE /\ Exercise' = [Exercise EXCEPT ![exercise_id].date_deleted = TRUE]
            /\ last' = Response("delete_exercise", 200, "Exercise deleted successfully")
    /\ UNCHANGED <<Class, Exam, exam_exercise, ExamExerciseInstance,
                   next_exam_id, workers, restVars, pc, session>>

\* The requests and the model outputs of the runs during which the catalog
\* changes: the accepted texts name catalog rows, one of them the row that is
\* soft-deleted from the start.
CatalogBodies ==
    [has_body : {TRUE}, class_id : {1}, context : {"Focus on past tense"},
     exercise_type_ids : {JList(<<1>>), JList(<<1, 2>>), JList(<<3, 4>>)}]
CatalogAccepted ==
    {<<LBrace, Members(ExamObject(JList(<<ClozeBlock, ReadingBlock>>))), RBrace>>,
     TextOf(ExamObject(JList(<<Block(JString("essay"), "Write about it",
                                     JList(<<Item("Your holidays", "free text")>>))>>)))}
CatalogOutputs ==
    CatalogAccepted \cup
    {TextOf(ExamObject(JList(<<ClozeBlock, Block(JString("Matching"), "Match",
                                                 JList(<<Item("a", "b")>>))>>)))}

NextCatalog ==
    \/ \E p \in workers, data \in CatalogBodies :
           \E flush_ok \in (IF validate(data).code = 0 THEN BOOLEAN ELSE {TRUE}) :
               generate_exam_begin(p, data, flush_ok)
    \/ \E p \in workers, ok \in BOOLEAN : generate_exam_retrieve(p, ok)
    \/ \E p \in workers : generate_exam_llm_error(p)
    \/ \E p \in workers, raw_output \in CatalogOutputs, commit_ok \in BOOLEAN :
           generate_exam_finish(p, raw_output, commit_ok)
    \/ \E exercise_id \in ExerciseIds : delete_exercise(exercise_id)

SpecCatalog == Init /\ [][NextCatalog]_vars

----------------------------------------------------------------------------
(* Two requests of generate_exam at a time *)

\* Both workers serve requests.
InitConcurrent ==
    /\ Class = InitialClass
    /\ Exercise = [id \in {1, 2, 3} |->
                     [name |-> CASE id = 1 -> "Cloze"
                                 [] id = 2 -> "Reading Comprehension"
                                 [] OTHER -> "Essay",
                      date_deleted |-> (id = 3)]]
    /\ Exam = <<>>
    /\ exam_exercise = {}
    /\ ExamExerciseInstance = <<>>
    /\ next_exam_id = 1
    /\ workers = AllWorkers
    /\ pc = [p \in AllWorkers |-> "idle"]
    /\ session = [p \in AllWorkers |-> NoSession]
    /\ last = NoResponse
    /\ InitRest

\* The requests and the model outputs of the overlapping runs: two valid
\* requests that differ in the types they ask for and one refused request;
\* two accepted texts that differ in their blocks and two refused texts.
ConcurrentBodies ==
    [has_body : {TRUE}, class_id : {1}, context : {"Focus on past tense"},
     exercise_type_ids : {JList(<<1>>), JList(<<1, 2>>), JList(<<3, 4>>)}]
ConcurrentOutputs ==
    {<<LBrace, Members(ExamObject(JList(<<ClozeBlock, ReadingBlock>>))), RBrace>>,
     TextOf(ExamObject(JList(<<Block(JString("Cloze"), "Complete",
                                     JList(<<ItemNoQuestion("went")>>))>>))),
     <<RBrace, Prose("oops"), LBrace>>,
     TextOf(ExamObject(JList(<<ClozeBlock, Block(JString("Matching"), "Match",
                                                 JList(<<Item("a", "b")>>))>>)))}

NextConcurrent ==
    \/ \E p \in workers, data \in ConcurrentBodies :
           \E flush_ok \in (IF validate(data).code = 0 THEN BOOLEAN ELSE {TRUE}) :
               generate_exam_begin(p, data, flush_ok)
    \/ \E p \in workers, ok \in BOOLEAN : generate_exam_retrieve(p, ok)
    \/ \E p \in workers : generate_exam_llm_error(p)
    \/ \E p \in workers, raw_output \in ConcurrentOutputs, commit_ok \in BOOLEAN :
           generate_exam_finish(p, raw_output, commit_ok)

SpecConcurrent == InitConcurrent /\ [][NextConcurrent]_vars

----------------------------------------------------------------------------
(* class_controller.py and level_controller.py *)

MaxClassId == 3
MaxLevelId == 3

\* int(value) of the values the bodies carry; "abc" raises ValueError.
int_raises(value) == value \notin {"2", "25"}
int(value) == IF value = "2" THEN 2 ELSE 25

\* The bodies of POST and PUT /api/class.  has_body is false for a missing,
\* unparsable or empty body; "" stands for an absent key.
ClassBodies ==
    {[has_body |-> FALSE, description |-> "", suggested_level |-> "", max_capacity |-> ""],
     [has_body |-> TRUE, description |-> "English III", suggested_level |-> "C1",
      max_capacity |-> "25"],
     [has_body |-> TRUE, description |-> "", suggested_level |-> "B2", max_capacity |-> "2"],
     [has_body |-> TRUE, description |-> "English IV", suggested_level |-> "C2",
      max_capacity |-> "abc"]}

\* uuid4().hex[:8].upper()
ClassCodes == {"0A1B2C3D", "4E5F6A7B"}

serialize_class(id) ==
    [id |-> id, class_code |-> Class[id].class_code, description |-> Class[id].description,
     suggested_level |-> Class[id].suggested_level, max_capacity |-> Class[id].max_capacity]

\* The UNIQUE indexes of table class, which count the soft-deleted rows too.
class_unique(table) ==
    \A a, b \in DOMAIN table :
        a # b => /\ table[a].class_code # table[b].class_code
                 /\ table[a].description # table[b].description

\* The next id of table class.  Rows are never removed, so the ids are
\* 1..n; the gap a failed INSERT leaves in the counter is not modelled.
next_class_id == Cardinality(DOMAIN Class) + 1

create_class(data, class_code) ==
    /\ next_class_id <= MaxClassId
    /\ IF ~data.has_body
       THEN /\ last' = Response("create_class", 400, "Invalid JSON body")
            /\ UNCHANGED Class
       ELSE IF data.description = "" \/ data.suggested_level = "" \/ data.max_capacity = ""
       THEN /\ last' = Response("create_class", 400, "Missing required field")
            /\ UNCHANGED Class
       ELSE IF int_raises(data.max_capacity)
       THEN /\ last' = Response("create_class", 400, "Invalid field value")
            /\ UNCHANGED Class
       ELSE LET row == [class_code |-> class_code, description |-> data.description,
                        suggested_level |-> data.suggested_level,
                        max_capacity |-> int(data.max_capacity), date_deleted |-> 0]
                table == [id \in DOMAIN Class \cup {next_class_id} |->
                             IF id \in DOMAIN Class THEN Class[id] ELSE row]
            IN  IF class_unique(table)
                THEN /\ Class' = table
                     /\ last' = [Response("create_class", 201, "Class created successfully")
                                    EXCEPT !.id = next_class_id]
                ELSE /\ last' = Response("create_class", 500, "Database error")
                     /\ UNCHANGED Class
    /\ UNCHANGED <<Exercise, Exam, exam_exercise, ExamExerciseInstance,
                   next_exam_id, workers, pc, session, restVars>>

get_all_classes ==
    /\ last' = [Response("get_all_classes", 200, "")
                   EXCEPT !.rows = {serialize_class(id) :
                                       id \in {c \in DOMAIN Class : Class[c].date_deleted = 0}}]
    /\ UNCHANGED <<dbVars, next_exam_id, workers, pc, session, restVars>>

get_class_by_id(class_id) ==
    /\ IF class_id \notin DOMAIN Class \/ Class[class_id].date_deleted # 0
       THEN last' = [Response("get_class_by_id", 404, "Class not found")
                        EXCEPT !.id = class_id]
       ELSE last' = [Response("get_class_by_id", 200, "")
                        EXCEPT !.id = class_id, !.rows = {serialize_class(class_id)}]
    /\ UNCHANGED <<dbVars, next_exam_id, workers, pc, session, restVars>>

update_class(class_id, data) ==
    /\ IF class_id \notin DOMAIN Class \/ Class[class_id].date_deleted # 0
       THEN /\ last' = [Response("update_class", 404, "Class not found")
                           EXCEPT !.id = class_id]
            /\ UNCHANGED Class
       ELSE IF ~data.has_body
       THEN /\ last' = [Response("update_class", 400, "Invalid JSON body")
                           EXCEPT !.id = class_id]
            /\ UNCHANGED Class
       ELSE IF data.max_capacity # "" /\ int_raises(data.max_capacity)
       THEN \* rollback
            /\ last' = [Response("update_class", 400, "Invalid field value")
                           EXCEPT !.id = class_id]
            /\ UNCHANGED Class
       ELSE LET table == [Class EXCEPT ![class_id] =
                            [@ EXCEPT !.description = IF data.description = "" THEN @
                                                      ELSE data.description,
                                      !.suggested_level = IF data.suggested_level = "" THEN @
                                                          ELSE data.suggested_level,
                                      !.max_capacity = IF data.max_capacity = "" THEN @
                                                       ELSE int(data.max_capacity)]]
            IN  IF class_unique(table)
                THEN /\ Class' = table
                     /\ last' = [Response("update_class", 200, "Class updated successfully")
                                    EXCEPT !.id = class_id]
                ELSE /\ last' = [Response("update_class", 500, "Database error")
                                    EXCEPT !.id = class_id]
                     /\ UNCHANGED Class
    /\ UNCHANGED <<Exercise, Exam, exam_exercise, ExamExerciseInstance,
                   next_exam_id, workers, pc, session, restVars>>

\* Mutant of delete_class: a deleted class is deleted again.
delete_class_again(class_id) ==
    /\ IF class_id \notin DOMAIN Class
       THEN /\ last' = [Response("delete_class", 404, "Class not found")
                           EXCEPT !.id = class_id]
            /\ UNCHANGED <<Class, now>>
       ELSE /\ Class' = [Class EXCEPT ![class_id].date_deleted = now]
            /\ now' = now + 1
            /\ last' = [Response("delete_class", 200, "Class deleted successfully")
                           EXCEPT !.id = class_id]
    /\ UNCHANGED <<Exercise, Exam, exam_exercise, ExamExerciseInstance,
                   next_exam_id, workers, pc, session,
                   Level, User, redis_client, registration>>

\* The clock moves on while the request is served, so that no two deletions
\* bear the same time.
delete_class(class_id) ==
    /\ IF class_id \notin DOMAIN Class \/ Class[class_id].date_deleted # 0
       THEN /\ last' = [Response("delete_class", 404, "Class not found")
                           EXCEPT !.id = class_id]
            /\ UNCHANGED <<Class, now>>
       ELSE /\ Class' = [Class EXCEPT ![class_id].date_deleted = now]
            /\ now' = now + 1
            /\ last' = [Response("delete_class", 200, "Class deleted successfully")
                           EXCEPT !.id = class_id]
    /\ UNCHANGED <<Exercise, Exam, exam_exercise, ExamExerciseInstance,
                   next_exam_id, workers, pc, session,
                   Level, User, redis_client, registration>>

\* The bodies of POST and PUT /api/level; "" stands for an absent key.
LevelBodies ==
    {[has_body |-> FALSE, description |-> "", cosmetic |-> "", min_xp |-> ""],
     [has_body |-> TRUE, description |-> "Expert", cosmetic |-> "medal", min_xp |-> "25"],
     [has_body |-> TRUE, description |-> "", cosmetic |-> "", min_xp |-> "2"],
     [has_body |-> TRUE, description |-> "Master", cosmetic |-> "", min_xp |-> "abc"]}

serialize_level(id) ==
    [id |-> id, description |-> Level[id].description, cosmetic |-> Level[id].cosmetic,
     min_xp |-> Level[id].min_xp]

\* The UNIQUE indexes of table level.
level_unique(table) ==
    \A a, b \in DOMAIN table :
        a # b => /\ table[a].min_xp # table[b].min_xp
                 /\ table[a].description # table[b].description

next_level_id == Cardinality(DOMAIN Level) + 1

\* min_xp goes to the INTEGER column as it is; the database refuses "abc".
create_level(data) ==
    /\ next_level_id <= MaxLevelId
    /\ IF ~data.has_body
       THEN /\ last' = Response("create_level", 400, "Invalid JSON body")
            /\ UNCHANGED Level
       ELSE IF data.description = "" \/ data.cosmetic = "" \/ data.min_xp = ""
                 \/ int_raises(data.min_xp)
       THEN /\ last' = Response("create_level", 501, "Something went wrong")
            /\ UNCHANGED Level
       ELSE LET row == [description |-> data.description, cosmetic |-> data.cosmetic,
                        min_xp |-> int(data.min_xp), date_deleted |-> 0]
                table == [id \in DOMAIN Level \cup {next_level_id} |->
                             IF id \in DOMAIN Level THEN Level[id] ELSE row]
            IN  IF level_unique(table)
                THEN /\ Level' = table
                     /\ last' = [Response("create_level", 201, "Level created successfully")
                                    EXCEPT !.id = next_level_id]
                ELSE /\ last' = Response("create_level", 501, "Something went wrong")
                     /\ UNCHANGED Level
    /\ UNCHANGED <<dbVars, next_exam_id, workers, pc, session,
                   User, redis_client, now, registration>>

get_all_levels ==
    /\ last' = [Response("get_all_levels", 200, "")
                   EXCEPT !.rows = {serialize_level(id) :
                                       id \in {l \in DOMAIN Level : Level[l].date_deleted = 0}}]
    /\ UNCHANGED <<dbVars, next_exam_id, workers, pc, session, restVars>>

get_level_by_id(level_id) ==
    /\ IF level_id \notin DOMAIN Level \/ Level[level_id].date_deleted # 0
       THEN last' = [Response("get_level_by_id", 404, "level not found")
                        EXCEPT !.id = level_id]
       ELSE last' = [Response("get_level_by_id", 200, "")
                        EXCEPT !.id = level_id, !.rows = {serialize_level(level_id)}]
    /\ UNCHANGED <<dbVars, next_exam_id, workers, pc, session, restVars>>

\* jsonify(body, 404) and jsonify(body, 200) make a two-element array of
\* their arguments and leave the status of the response at 200.
update_level(level_id, data) ==
    /\ IF level_id \notin DOMAIN Level \/ Level[level_id].date_deleted # 0
       THEN /\ last' = [Response("update_level", 200, "Level not found")
                           EXCEPT !.id = level_id]
            /\ UNCHANGED Level
       ELSE IF ~data.has_body
       THEN /\ last' = [Response("update_level", 400, "Invalid JSON body")
                           EXCEPT !.id = level_id]
            /\ UNCHANGED Level
       ELSE IF data.min_xp # "" /\ int_raises(data.min_xp)
       THEN /\ last' = [Response("update_level", 400, "Invalid field value")
                           EXCEPT !.id = level_id]
            /\ UNCHANGED Level
       ELSE LET table == [Level EXCEPT ![level_id] =
                            [@ EXCEPT !.description = IF data.description = "" THEN @
                                                      ELSE data.description,
                                      !.cosmetic = IF data.cosmetic = "" THEN @
                                                   ELSE data.cosmetic,
                                      !.min_xp = IF data.min_xp = "" THEN @
                                                 ELSE int(data.min_xp)]]
            IN  IF level_unique(table)
                THEN /\ Level' = table
                     /\ last' = [Response("update_level", 200, "Level updated succesfully")
                                    EXCEPT !.id = level_id]
                ELSE /\ last' = [Response("update_level", 500, "Database error")
                                    EXCEPT !.id = level_id]
                     /\ UNCHANGED Level
    /\ UNCHANGED <<dbVars, next_exam_id, workers, pc, session,
                   User, redis_client, now, registration>>

soft_delete_level(level_id) ==
    /\ IF level_id \notin DOMAIN Level \/ Level[level_id].date_deleted # 0
       THEN /\ last' = [Response("soft_delete_level", 404, "Level not found")
                           EXCEPT !.id = level_id]
            /\ UNCHANGED <<Level, now>>
       ELSE /\ Level' = [Level EXCEPT ![level_id].date_deleted = now]
            /\ now' = now + 1
            /\ last' = [Response("soft_delete_level", 200, "Level deleted successfully")
                           EXCEPT !.id = level_id]
    /\ UNCHANGED <<dbVars, next_exam_id, workers, pc, session,
                   User, redis_client, registration>>

ClassIds == 1 .. MaxClassId + 1
LevelIds == 1 .. MaxLevelId + 1

NextClass ==
    \/ \E data \in ClassBodies, class_code \in ClassCodes : create_class(data, class_code)
    \/ get_all_classes
    \/ \E class_id \in ClassIds : get_class_by_id(class_id)
    \/ \E class_id \in ClassIds, data \in ClassBodies : update_class(class_id, data)
    \/ \E class_id \in ClassIds : delete_class(class_id)
    \/ \E data \in LevelBodies : create_level(data)
    \/ get_all_levels
    \/ \E level_id \in LevelIds : get_level_by_id(level_id)
    \/ \E level_id \in LevelIds, data \in LevelBodies : update_level(level_id, data)
    \/ \E level_id \in LevelIds : soft_delete_level(level_id)

SpecClass == Init /\ [][NextClass]_vars

----------------------------------------------------------------------------
(* auth_controller.py: the password reset code *)

\* email.strip().lower()
normalize_email(email) ==
    CASE email = " Ana@X.io " -> "ana@x.io"
      [] email = "Bob@X.io" -> "bob@x.io"
      [] email = "  " -> ""
      [] OTHER -> email

\* f"pwdreset:code:{normalize_email(email)}"
reset_code_key(email) == <<"pwdreset:code:", normalize_email(email)>>

\* code.strip()
strip(code) ==
    CASE code = " 000123 " -> "000123"
      [] code = " B1-A " -> "B1-A"
      [] OTHER -> code

\* len(code) == 6 and code.isdigit()
six_digits(code) == code \in {"000123", "654321", "999999"}

\* generate_code(): the codes random.randint can give.
ResetCodes == {"000123", "654321", "999999"}

\* redis_client.get(key); "" stands for None.
redis_get(store, key) ==
    IF \E entry \in store : entry[1] = key
    THEN (CHOOSE entry \in store : entry[1] = key)[2]
    ELSE ""

\* redis_client.setex(key, ttl_seconds, value)
redis_setex(store, key, value) ==
    {entry \in store : entry[1] # key} \cup {<<key, value>>}

\* redis_client.delete(key)
redis_delete(store, key) == {entry \in store : entry[1] # key}

\* The bodies of POST /auth/send-reset-code and /auth/verify-reset-code; ""
\* stands for an absent key.
SendBodies == [email : {"", "  ", "ana@x.io", " Ana@X.io ", "old@x.io", "bob@x.io"}]
VerifyBodies ==
    [email : {"", "ana@x.io", " Ana@X.io ", "old@x.io"},
     code : {"", "000123", " 000123 ", "654321", "12345"}]

\* mail.send(msg) delivers, or raises and the request ends with status 500;
\* the code was stored before.
send_reset_code_controller(data, code, mail_ok) ==
    /\ IF data.email = "" \/ normalize_email(data.email) = ""
       THEN /\ last' = Response("send_reset_code_controller", 400, "email required")
            /\ UNCHANGED redis_client
       ELSE IF ~\E id \in DOMAIN User : User[id].email = normalize_email(data.email)
       THEN /\ last' = Response("send_reset_code_controller", 404, "User not found")
            /\ UNCHANGED redis_client
       ELSE /\ redis_client' =
                  redis_setex(redis_client, reset_code_key(normalize_email(data.email)), code)
            /\ last' = IF mail_ok
                       THEN [Response("send_reset_code_controller", 200, "code sent")
                                EXCEPT !.mail = <<normalize_email(data.email), code>>]
                       ELSE Response("send_reset_code_controller", 500,
                                     "Internal Server Error")
    /\ UNCHANGED <<dbVars, next_exam_id, workers, pc, session,
                   Level, User, now, registration>>

\* Mutant of verify_reset_code_controller: the code stays after a success.
verify_reset_code_controller_keeps_code(data) ==
    /\ IF data.email = "" \/ data.code = ""
       THEN last' = Response("verify_reset_code_controller", 400, "email and code required")
       ELSE IF ~six_digits(strip(data.code))
       THEN last' = Response("verify_reset_code_controller", 400, "Invalid or expired code")
       ELSE IF redis_get(redis_client, reset_code_key(normalize_email(data.email))) = ""
       THEN last' = Response("verify_reset_code_controller", 400, "Invalid or expired code")
       ELSE IF redis_get(redis_client, reset_code_key(normalize_email(data.email)))
                  # strip(data.code)
       THEN last' = Response("verify_reset_code_controller", 400, "Invalid or expired code")
       ELSE last' = Response("verify_reset_code_controller", 200, "code valid")
    /\ UNCHANGED <<dbVars, next_exam_id, workers, pc, session, restVars>>

verify_reset_code_controller(data) ==
    /\ IF data.email = "" \/ data.code = ""
       THEN /\ last' = Response("verify_reset_code_controller", 400,
                                "email and code required")
            /\ UNCHANGED redis_client
       ELSE IF ~six_digits(strip(data.code))
       THEN /\ last' = Response("verify_reset_code_controller", 400,
                                "Invalid or expired code")
            /\ UNCHANGED redis_client
       ELSE IF redis_get(redis_client, reset_code_key(normalize_email(data.email))) = ""
       THEN /\ last' = Response("verify_reset_code_controller", 400,
                                "Invalid or expired code")
            /\ UNCHANGED redis_client
       ELSE IF redis_get(redis_client, reset_code_key(normalize_email(data.email)))
                  # strip(data.code)
       THEN /\ last' = Response("verify_reset_code_controller", 400,
                                "Invalid or expired code")
            /\ UNCHANGED redis_client
       ELSE /\ redis_client' =
                  redis_delete(redis_client, reset_code_key(normalize_email(data.email)))
            /\ last' = Response("verify_reset_code_controller", 200, "code valid")
    /\ UNCHANGED <<dbVars, next_exam_id, workers, pc, session,
                   Level, User, now, registration>>

\* The time to live that setex gave the key runs out.
expire(key) ==
    /\ redis_get(redis_client, key) # ""
    /\ redis_client' = redis_delete(redis_client, key)
    /\ last' = NoResponse
    /\ UNCHANGED <<dbVars, next_exam_id, workers, pc, session,
                   Level, User, now, registration>>

ResetKeys == {reset_code_key(data.email) : data \in SendBodies}

NextReset ==
    \/ \E data \in SendBodies, code \in ResetCodes, mail_ok \in BOOLEAN :
           send_reset_code_controller(data, code, mail_ok)
    \/ \E data \in VerifyBodies : verify_reset_code_controller(data)
    \/ \E key \in ResetKeys : expire(key)

SpecReset == Init /\ [][NextReset]_vars

----------------------------------------------------------------------------
(* user_controller.py: register_student *)

MaxUserId == 4

\* The bodies of POST /api/user/student; "" stands for an absent or empty
\* value.  name stands for name, surname and passwd.
RegisterBodies ==
    {[name |-> "Bob", email |-> "Bob@X.io", dni |-> "222", class_code |-> " B1-A "],
     [name |-> "Carol", email |-> "carol@x.io", dni |-> "333", class_code |-> "B1-A"],
     [name |-> "Dan", email |-> "dan@x.io", dni |-> "444", class_code |-> "B1-A"],
     [name |-> "Ana", email |-> " Ana@X.io ", dni |-> "555", class_code |-> "B1-A"],
     [name |-> "Eve", email |-> "eve@x.io", dni |-> "111", class_code |-> "B1-A"],
     [name |-> "Old", email |-> "old@x.io", dni |-> "999", class_code |-> "B1-A"],
     [name |-> "Fay", email |-> "fay@x.io", dni |-> "666", class_code |-> "B2-C"],
     [name |-> "", email |-> "gus@x.io", dni |-> "777", class_code |-> "B1-A"]}

\* query.query_first(): the row of the lowest id among those that match.
query_first(ids) == IF ids = {} THEN 0 ELSE CHOOSE id \in ids : \A other \in ids : id <= other

\* func.count(User.id) of the students of a class that are not deleted.
current_students(table, class_id) ==
    Cardinality({id \in DOMAIN table : /\ table[id].student_class_id = class_id
                                       /\ table[id].date_deleted = 0})

\* current_students >= clazz.max_capacity
class_is_full(table, class_id) ==
    current_students(table, class_id) >= Class[class_id].max_capacity

next_user_id == Cardinality(DOMAIN User) + 1

\* Lines 131-180: the checks of the request, up to the count of the students
\* of the class.  A request that passes them goes on to its commit.
register_student_begin(p, data) ==
    /\ registration[p].stage = "idle"
    /\ next_user_id <= MaxUserId
    /\ LET email == normalize_email(data.email)
           dni == strip(data.dni)
           class_code == strip(data.class_code)
           existing_email == query_first({id \in DOMAIN User : User[id].email = email})
           existing_dni == query_first({id \in DOMAIN User : User[id].dni = dni})
           clazz == query_first({id \in DOMAIN Class : /\ Class[id].class_code = class_code
                                                 /\ Class[id].date_deleted = 0})
       IN  IF data.name = "" \/ data.email = "" \/ data.dni = "" \/ data.class_code = ""
           THEN /\ last' = Response("register_student", 400, "Missing required fields")
                /\ UNCHANGED registration
           ELSE IF existing_email # 0 /\ User[existing_email].date_deleted = 0
           THEN /\ last' = Response("register_student", 409, "Email already exists.")
                /\ UNCHANGED registration
           ELSE IF existing_dni # 0 /\ User[existing_dni].date_deleted = 0
           THEN /\ last' = Response("register_student", 409, "DNI already exists.")
                /\ UNCHANGED registration
           ELSE IF clazz = 0
           THEN /\ last' = Response("register_student", 404, "Class not found.")
                /\ UNCHANGED registration
           ELSE IF class_is_full(User, clazz)
           THEN /\ last' = [Response("register_student", 422, "Class is full.")
                               EXCEPT !.id = clazz]
                /\ UNCHANGED registration
           ELSE /\ registration' = [registration EXCEPT ![p] =
                       [stage |-> "counted", email |-> email, dni |-> dni,
                        class_id |-> clazz]]
                /\ UNCHANGED last
    /\ UNCHANGED <<dbVars, next_exam_id, workers, pc, session,
                   Level, User, redis_client, now>>

\* Lines 199-214: the INSERT and the commit, which the UNIQUE index of
\* user.email may refuse, and then the welcome mail, whose failure is
\* answered with 500 after the student was stored.
register_student_commit(p, mail_ok) ==
    /\ registration[p].stage = "counted"
    /\ IF \E id \in DOMAIN User : User[id].email = registration[p].email
       THEN /\ last' = Response("register_student", 500, "Database error")
            /\ UNCHANGED User
       ELSE /\ User' = [id \in DOMAIN User \cup {next_user_id} |->
                           IF id \in DOMAIN User THEN User[id]
                           ELSE [email |-> registration[p].email,
                                 dni |-> registration[p].dni,
                                 student_class_id |-> registration[p].class_id,
                                 date_deleted |-> 0]]
            /\ last' = IF mail_ok
                       THEN [Response("register_student", 201,
                                      "Student created successfully. Verification email sent.")
                                EXCEPT !.id = next_user_id]
                       ELSE [Response("register_student", 500, "Unexpected error")
                                EXCEPT !.id = next_user_id]
    /\ registration' = [registration EXCEPT ![p] = NoRegistration]
    /\ UNCHANGED <<dbVars, next_exam_id, workers, pc, session,
                   Level, redis_client, now>>

NextRegister ==
    \/ \E p \in workers, data \in RegisterBodies : register_student_begin(p, data)
    \/ \E p \in workers, mail_ok \in BOOLEAN : register_student_commit(p, mail_ok)

\* The requests are served one at a time.
SpecRegister == Init /\ [][NextRegister]_vars

\* Two requests are served at a time.
SpecRegisterConcurrent == InitConcurrent /\ [][NextRegister]_vars

----------------------------------------------------------------------------
(* Properties *)

\* The exercise blocks of a model text, read off the text itself.
BlocksOf(text) == Iterate(json_loads(extract_json(text).text).value.exercises).elems

\* The text holds a JSON object whose "exercises" can be iterated.
Parsable(text) ==
    /\ extract_json(text).ok
    /\ json_loads(extract_json(text).text).ok
    /\ json_loads(extract_json(text).text).value.has_exercises
    /\ Iterate(json_loads(extract_json(text).text).value.exercises).ok

\* The block names, up to case, an entry of the catalog.
KnownType(block) ==
    /\ block.kind = "object"
    /\ block.has_exercise_type
    /\ block.exercise_type.kind = "string"
    /\ \E id \in DOMAIN Exercise : lower(Exercise[id].name) = lower(block.exercise_type.s)

\* Some block of the text names an exercise type that is not in the catalog.
HasUnknownType(text) ==
    /\ Parsable(text)
    /\ \E k \in 1..Len(BlocksOf(text)) :
          /\ BlocksOf(text)[k].kind = "object"
          /\ BlocksOf(text)[k].has_exercise_type
          /\ BlocksOf(text)[k].exercise_type.kind = "string"
          /\ ~KnownType(BlocksOf(text)[k])

\* A generate request that got past validation, retrieval and generation has
\* just been answered.
GenerateAnswered == last.op = "generate" /\ ~last.raw_output.null

\* C1: a generate request that passed validation and whose model output fails
\* at extraction, JSON parsing or block validation leaves the committed tables
\* exactly as they were: no exam row of the run, no instance and no
\* association row.
C1_ParseFailureLeavesDatabaseUnchanged ==
    [][\A p \in AllWorkers, raw_output \in LlmOutputs, commit_ok \in BOOLEAN :
         (/\ generate_exam_finish(p, raw_output, commit_ok)
          /\ raw_output \in RefusedOutputs)
         => /\ Database' = Database
            /\ last'.code \in {400, 500}
            /\ session[p].exam_id \notin DOMAIN Exam'
            /\ generated_exercises(ExamExerciseInstance', session[p].exam_id) = <<>>
            /\ exercise_types(exam_exercise', session[p].exam_id) = {}
            /\ session'[p] = NoSession]_vars

C1_Witness ==
    /\ GenerateAnswered
    /\ last.code = 500
    /\ last.message = "Model did not return valid JSON"
    /\ last.llm_calls = 1
    /\ next_exam_id = 2
    /\ Exam = <<>>

\* Any step of a generate request.
GenerateStep ==
    \/ \E p \in AllWorkers, data \in GenerateBodies, flush_ok \in BOOLEAN :
          generate_exam_begin(p, data, flush_ok)
    \/ \E p \in AllWorkers, ok \in BOOLEAN : generate_exam_retrieve(p, ok)
    \/ \E p \in AllWorkers : generate_exam_llm_error(p)
    \/ \E p \in AllWorkers, raw_output \in LlmOutputs, commit_ok \in BOOLEAN :
          generate_exam_finish(p, raw_output, commit_ok)

\* C2: generate requests never commit an exam row in status GENERATING: no
\* such row exists at the start, no step of a generate request (refused,
\* failed at any stage or successful) adds one, and the status exists only in
\* the uncommitted session of a running request.
C2_GeneratingNeverCommitted ==
    /\ \A id \in DOMAIN Exam : Exam[id].status # "GENERATING"
    /\ [][GenerateStep
            => /\ \A id \in DOMAIN Exam' :
                     Exam'[id].status = "GENERATING"
                         => (id \in DOMAIN Exam /\ Exam[id].status = "GENERATING")
               /\ \A q \in AllWorkers :
                     session'[q].exam_id # 0 =>
                         /\ session'[q].new_exam.status = "GENERATING"
                         /\ session'[q].exam_id \notin DOMAIN Exam'
                         /\ pc'[q] # "idle"]_vars

C2_Witness ==
    /\ last.op = "generate"
    /\ last.code = 201
    /\ last.exam_id \in DOMAIN Exam
    /\ Exam[last.exam_id].status = "Pending Review"
    /\ \A p \in AllWorkers : pc[p] = "idle"

\* C3: a generate request answered 201 committed exactly one new exam row, and
\* that exam owns one instance per exercise block of the model output, in block
\* order.
C3_OneExamOneInstancePerBlock ==
    [][\A p \in AllWorkers, raw_output \in LlmOutputs, commit_ok \in BOOLEAN :
         (generate_exam_finish(p, raw_output, commit_ok) /\ last'.code = 201)
         => LET id == session[p].exam_id
                blocks == BlocksOf(raw_output)
                mine == generated_exercises(ExamExerciseInstance', id)
            IN  /\ id \notin DOMAIN Exam
                /\ DOMAIN Exam' = DOMAIN Exam \cup {id}
                /\ \A other \in DOMAIN Exam : Exam'[other] = Exam[other]
                /\ last'.exam_id = id
                /\ Len(mine) = Len(blocks)
                /\ Len(ExamExerciseInstance') = Len(ExamExerciseInstance) + Len(blocks)
                /\ \A k \in 1..Len(blocks) :
                      /\ mine[k].instructions = blocks[k].instructions
                      /\ mine[k].content_json = json_dumps(blocks[k].items)
                      /\ lower(Exercise[mine[k].exercise_type_id].name)
                           = lower(blocks[k].exercise_type.s)]_vars

C3_Witness ==
    /\ GenerateAnswered
    /\ last.code = 201
    /\ Len(BlocksOf(last.raw_output.text)) = 2
    /\ Len(generated_exercises(ExamExerciseInstance, last.exam_id)) = 2

\* C4: a block whose exercise_type matches no catalog entry fails the request
\* and nothing is persisted, also when earlier blocks of the same response had
\* been added to the session.
C4_UnknownTypeAbortsWholeBatch ==
    [][\A p \in AllWorkers, raw_output \in LlmOutputs, commit_ok \in BOOLEAN :
         (/\ generate_exam_finish(p, raw_output, commit_ok)
          /\ HasUnknownType(raw_output))
         => /\ last'.code \in {400, 500}
            /\ Database' = Database
            /\ session[p].exam_id \notin DOMAIN Exam'
            /\ \A i \in 1..Len(ExamExerciseInstance') :
                  ExamExerciseInstance'[i].exam_id # session[p].exam_id]_vars

C4_Witness ==
    /\ GenerateAnswered
    /\ last.code = 400
    /\ last.message = "Exercise type not found in catalog"
    /\ HasUnknownType(last.raw_output.text)
    /\ KnownType(BlocksOf(last.raw_output.text)[1])
    /\ Exam = <<>>
    /\ ExamExerciseInstance = <<>>

\* The items stored as the content payload of an instance.
StoredItems(instance) == Iterate(json_loads(instance.content_json).value).elems

\* C5 (as claimed): no item of a stored content payload, and so no item that
\* get_full_exam returns, carries the answer; every item is reduced to its
\* question and options.
C5_ContentCarriesNoAnswer ==
    /\ \A n \in 1..Len(ExamExerciseInstance) :
          \A i \in 1..Len(StoredItems(ExamExerciseInstance[n])) :
              ~StoredItems(ExamExerciseInstance[n])[i].has_answer
    /\ (last.op = "get_full_exam" /\ last.code = 200) =>
          \A k \in 1..Len(last.result.exercises) :
              \A i \in 1..Len(Iterate(last.result.exercises[k].items).elems) :
                  ~Iterate(last.result.exercises[k].items).elems[i].has_answer

\* C6: in every committed instance the answer key is as long as the item list
\* and its i-th answer is the answer of the i-th item of the block of the model
\* output the instance was built from.
C6_AnswersAlignedWithItems ==
    \A id \in DOMAIN Exam :
        LET mine == generated_exercises(ExamExerciseInstance, id)
            blocks == BlocksOf(Exam[id].generated_snapshot.text)
        IN  \A k \in 1..Len(mine) :
                LET answers == json_loads(mine[k].answer_key_json).value.answers
                    items == Iterate(blocks[k].items).elems
                IN  /\ Len(answers) = Len(StoredItems(mine[k]))
                    /\ Len(answers) = Len(items)
                    /\ \A i \in 1..Len(items) : answers[i] = items[i].answer

C6_Witness ==
    \E n \in 1..Len(ExamExerciseInstance) :
        LET answers == json_loads(ExamExerciseInstance[n].answer_key_json).value.answers
        IN  /\ Len(answers) = 2
            /\ answers[1] # answers[2]
            /\ Len(StoredItems(ExamExerciseInstance[n])) = 2

\* C7: both exports answer 404 for a missing or soft-deleted exam, otherwise
\* 400 for any status other than GENERATED, and hand out a document only for a
\* non-deleted exam in status GENERATED.
C7_ExportRefusalOrder ==
    \A op \in {"export_exam_pdf", "export_exam_docx"}, id \in ExamIds :
        LET r == exported(op, id)
            missing == id \notin DOMAIN Exam \/ Exam[id].date_deleted
        IN  /\ missing => (r.code = 404 /\ r.document = <<>>)
            /\ (~missing /\ Exam[id].status # "GENERATED")
                  => (r.code = 400 /\ r.document = <<>>)
            /\ r.document # <<>>
                  => (~missing /\ Exam[id].status = "GENERATED" /\ r.code = 200)
            /\ (~missing /\ Exam[id].status = "GENERATED") => r.code \in {200, 500}

C7_Witness ==
    /\ last.op = "export_exam_docx"
    /\ last.code = 400
    /\ last.document = <<>>
    /\ \E id \in DOMAIN Exam : ~Exam[id].date_deleted /\ Exam[id].status = "Pending Review"

\* The answer the validation rules give a request body: 400 for a missing body,
\* a missing field or a list of ids that is empty or no list, then 404 for the
\* class, then 400 with the first bad id; code 0 when the request is valid.
ExpectedRefusal(data) ==
    LET ids == data.exercise_type_ids
        bad(i) == ids.elems[i] \notin DOMAIN Exercise \/ Exercise[ids.elems[i]].date_deleted
    IN  IF \/ ~data.has_body
           \/ data.class_id = 0
           \/ data.context = ""
           \/ ids.kind # "list"
           \/ ids.elems = <<>>
        THEN [code |-> 400, id |-> 0]
        ELSE IF data.class_id \notin DOMAIN Class \/ Class[data.class_id].date_deleted # 0
        THEN [code |-> 404, id |-> 0]
        ELSE IF \E i \in 1..Len(ids.elems) : bad(i)
        THEN [code |-> 400,
              id |-> ids.elems[CHOOSE i \in 1..Len(ids.elems) :
                                  bad(i) /\ \A j \in 1..(i - 1) : ~bad(j)]]
        ELSE [code |-> 0, id |-> 0]

\* C8: generate validates before any write: 400 for the body, then 404 for the
\* class, then 400 naming the first bad exercise-type id; a refused request
\* creates no exam row and calls neither the retrieval nor the generation service.
C8_ValidationBeforeAnyWrite ==
    [][\A data \in GenerateBodies :
         (\E p \in workers, flush_ok \in BOOLEAN : generate_exam_begin(p, data, flush_ok))
         => LET expected == ExpectedRefusal(data)
            IN  IF expected.code # 0
                THEN /\ last'.code = expected.code
                     /\ last'.id = expected.id
                     /\ Database' = Database
                     /\ next_exam_id' = next_exam_id
                     /\ session' = session
                     /\ pc' = pc
                     /\ last'.rag_calls = 0 /\ last'.llm_calls = 0
                ELSE last'.code \notin {400, 404}]_vars

C8_Witness ==
    /\ last.op = "generate"
    /\ last.code = 400
    /\ last.message = "Invalid exercise type id"
    /\ last.id = 4
    /\ \A p \in AllWorkers : pc[p] = "idle" /\ session[p] = NoSession
    /\ Exam = <<>>

\* C9: when the retrieval or the generation service fails, the request is
\* answered 500, the flushed exam and its associations are rolled back and
\* nothing of the run is committed; after a failed retrieval the generation
\* service is not called.
C9_ServiceFailureRollsBack ==
    [][\A p \in AllWorkers :
         (generate_exam_retrieve(p, FALSE) \/ generate_exam_llm_error(p))
         => /\ last'.op = "generate"
            /\ last'.code = 500
            /\ Database' = Database
            /\ session[p].exam_id \notin DOMAIN Exam'
            /\ exercise_types(exam_exercise', session[p].exam_id) = {}
            /\ session'[p] = NoSession
            /\ pc'[p] = "idle"
            /\ (pc[p] = "created" => last'.llm_calls = 0)]_vars

C9_Witness ==
    /\ last.op = "generate"
    /\ last.code = 500
    /\ last.message = "Unexpected error"
    /\ last.rag_calls = 1
    /\ last.llm_calls = 0
    /\ next_exam_id = 2
    /\ Exam = <<>>
    /\ exam_exercise = {}

\* What the client reads of a response.
Body(r) == [code |-> r.code, message |-> r.message, id |-> r.id, name |-> r.name]

\* C10 (as claimed): the body of an error response does not depend on the text
\* the generation service returned: two runs of the same request that differ
\* only in that text and both fail with the same status get the same body.
C10_ErrorBodyIndependentOfModelText ==
    \A p \in AllWorkers :
        pc[p] = "retrieved" =>
            \A r1, r2 \in LlmOutputs :
                LET a == generation_result(Database, session[p], r1, TRUE).response
                    b == generation_result(Database, session[p], r2, TRUE).response
                IN  (a.code # 201 /\ a.code = b.code) => Body(a) = Body(b)

\* C11: instances, snapshot and final status become visible in one commit: the
\* commit of a successful generate shows the exam in Pending Review with the
\* verbatim raw model text as snapshot and all its instances, and no committed
\* state has an exam without its snapshot or an instance set that differs from
\* the blocks of the snapshot, or an instance without its exam.
C11_SnapshotStatusInstancesTogether ==
    /\ [](/\ \A id \in DOMAIN Exam :
                /\ ~Exam[id].generated_snapshot.null
                /\ Parsable(Exam[id].generated_snapshot.text)
                /\ Len(generated_exercises(ExamExerciseInstance, id))
                      = Len(BlocksOf(Exam[id].generated_snapshot.text))
          /\ \A n \in DOMAIN ExamExerciseInstance :
                ExamExerciseInstance[n].exam_id \in DOMAIN Exam)
    /\ [][\A p \in AllWorkers, raw_output \in LlmOutputs, commit_ok \in BOOLEAN :
            (generate_exam_finish(p, raw_output, commit_ok) /\ last'.code = 201)
            => LET id == session[p].exam_id
               IN  /\ id \notin DOMAIN Exam
                   /\ id \in DOMAIN Exam'
                   /\ Exam'[id].status = "Pending Review"
                   /\ Exam'[id].generated_snapshot = Text(raw_output)
                   /\ Len(generated_exercises(ExamExerciseInstance', id))
                         = Len(BlocksOf(raw_output))]_vars

C11_Witness ==
    /\ last.op = "generate"
    /\ last.code = 201
    /\ last.exam_id \in DOMAIN Exam
    /\ Exam[last.exam_id].status = "Pending Review"
    /\ Exam[last.exam_id].generated_snapshot.text
          # extract_json(Exam[last.exam_id].generated_snapshot.text).text
    /\ Len(generated_exercises(ExamExerciseInstance, last.exam_id)) = 1

\* C12: the status of an exam handled by generate goes (none) -> GENERATING ->
\* Pending Review only: a pending exam is GENERATING, a generate step changes
\* no committed exam, the only row it adds is its own in Pending Review with
\* its snapshot, the exam it just produced is refused by both exports with
\* 400, and an export of an exam turns from refused to served only by a step
\* that is no generate step.
C12_StatusLifecycle ==
    /\ [](/\ \A p \in AllWorkers :
                pc[p] # "idle" => session[p].new_exam.status = "GENERATING"
                                  /\ session[p].new_exam.generated_snapshot.null
          /\ (last.op = "generate" /\ last.code = 201)
                => \A op \in {"export_exam_pdf", "export_exam_docx"} :
                      exported(op, last.exam_id).code = 400)
    /\ [][GenerateStep
            => /\ \A id \in DOMAIN Exam : id \in DOMAIN Exam' /\ Exam'[id] = Exam[id]
               /\ \A id \in DOMAIN Exam' \ DOMAIN Exam :
                     /\ Exam'[id].status = "Pending Review"
                     /\ ~Exam'[id].generated_snapshot.null
                     /\ last'.code = 201 /\ last'.exam_id = id
               /\ \A id \in ExamIds, op \in {"export_exam_pdf", "export_exam_docx"} :
                     exported(op, id)'.code # 200 \/ exported(op, id).code = 200]_vars

C12_Witness ==
    /\ last.op = "generate"
    /\ last.code = 201
    /\ Exam[last.exam_id].status = "Pending Review"
    /\ ~Exam[last.exam_id].date_deleted
    /\ exported("export_exam_pdf", last.exam_id).code = 400
    /\ exported("export_exam_docx", last.exam_id).message = "Exam not generated yet"

\* Names a model may return, in several spellings, with near misses.
ReturnedNames ==
    {"cloze", "Cloze", "CLOZE", "reading comprehension", "Reading Comprehension",
     "READING COMPREHENSION", "Reading", "Cloze test", "Matching", "Crossword", ""}

\* The catalog rows whose name equals the given name after lower-casing both.
SameLowered(name) == {id \in DOMAIN Exercise : lower(Exercise[id].name) = lower(name)}

\* C13: catalog resolution is a case-insensitive exact match: a name resolves
\* exactly when a catalog row has the same lower-cased name, and to such a row
\* ("reading comprehension" to "Reading Comprehension"); a generate answered
\* 201 stored for every block the id of a row matching the block's name, and
\* the not-found refusal names a type that no row matches.
C13_CaseInsensitiveExactMatch ==
    /\ [](/\ \A name \in ReturnedNames :
                /\ find_exercise_type(name) # 0 <=> SameLowered(name) # {}
                /\ find_exercise_type(name) # 0 => find_exercise_type(name) \in SameLowered(name)
          /\ \A id \in DOMAIN Exercise :
                Exercise[id].name = "Reading Comprehension"
                    => find_exercise_type("reading comprehension") = id)
    /\ [][\A p \in AllWorkers, raw_output \in LlmOutputs, commit_ok \in BOOLEAN :
            generate_exam_finish(p, raw_output, commit_ok)
            => /\ last'.code = 201 =>
                     LET blocks == BlocksOf(raw_output)
                         mine == generated_exercises(ExamExerciseInstance',
                                                     session[p].exam_id)
                     IN  \A k \in 1..Len(blocks) :
                            mine[k].exercise_type_id \in SameLowered(blocks[k].exercise_type.s)
               /\ last'.code = 400 =>
                     /\ SameLowered(last'.name.s) = {}
                     /\ HasUnknownType(raw_output)
               /\ HasUnknownType(raw_output) => last'.code # 201]_vars

C13_Witness ==
    \E n \in DOMAIN ExamExerciseInstance :
        LET instance == ExamExerciseInstance[n]
            blocks == BlocksOf(Exam[instance.exam_id].generated_snapshot.text)
        IN  /\ instance.exam_id \in DOMAIN Exam
            /\ Exercise[instance.exercise_type_id].name = "Reading Comprehension"
            /\ \E k \in 1..Len(blocks) :
                  /\ blocks[k].exercise_type.s = "READING COMPREHENSION"
                  /\ blocks[k].instructions = instance.instructions

\* C14 (as claimed): for the raw text of every answered generate request,
\* extract_json fails when the text has no '{' or no '}', and otherwise returns
\* the part of the text from the first '{' to the last '}', both included.
C14_ExtractFirstToLastBrace ==
    GenerateAnswered =>
        LET text == last.raw_output.text
            first == CHOOSE i \in 0..Len(text) :
                        \/ i = Len(text) /\ \A j \in 1..Len(text) : text[j].kind # "lbrace"
                        \/ /\ i < Len(text)
                           /\ text[i + 1].kind = "lbrace"
                           /\ \A j \in 1..i : text[j].kind # "lbrace"
            final == CHOOSE i \in 0..Len(text) :
                        \/ i = Len(text) /\ \A j \in 1..Len(text) : text[j].kind # "rbrace"
                        \/ /\ i < Len(text)
                           /\ text[i + 1].kind = "rbrace"
                           /\ \A j \in (i + 2)..Len(text) : text[j].kind # "rbrace"
            cleaned_json == extract_json(text)
        IN  IF first = Len(text) \/ final = Len(text)
            THEN ~cleaned_json.ok
            ELSE /\ cleaned_json.ok
                 /\ cleaned_json.text # <<>>
                 /\ Head(cleaned_json.text) = LBrace
                 /\ cleaned_json.text[Len(cleaned_json.text)] = RBrace
                 /\ Len(cleaned_json.text) = final - first + 1
                 /\ \A k \in 1..Len(cleaned_json.text) :
                       cleaned_json.text[k] = text[first + k]

\* The object between the first '{' and the last '}' of the text is
\* {"exercises": []}.
EmptyExercises(text) ==
    /\ extract_json(text).ok
    /\ json_loads(extract_json(text).text).ok
    /\ json_loads(extract_json(text).text).value = ExamObject(JList(<<>>))

\* C15: a model output whose extracted object is {"exercises": []} is accepted:
\* generate answers 201 and commits the exam in Pending Review with no
\* exercise instance, whatever non-empty list of exercise types was requested
\* (the requested types are associated, none has to appear in the output).
C15_ZeroExercisesAccepted ==
    [][\A p \in AllWorkers, raw_output \in LlmOutputs :
         (generate_exam_finish(p, raw_output, TRUE) /\ EmptyExercises(raw_output))
         => LET id == session[p].exam_id
            IN  /\ last'.code = 201
                /\ last'.exam_id = id
                /\ id \in DOMAIN Exam'
                /\ Exam'[id].status = "Pending Review"
                /\ generated_exercises(ExamExerciseInstance', id) = <<>>
                /\ session[p].exercise_types # <<>>
                /\ exercise_types(exam_exercise', id)
                      = {session[p].exercise_types[i] :
                            i \in 1..Len(session[p].exercise_types)}]_vars

C15_Witness ==
    /\ last.op = "generate"
    /\ last.code = 201
    /\ EmptyExercises(last.raw_output.text)
    /\ Exam[last.exam_id].status = "Pending Review"
    /\ generated_exercises(ExamExerciseInstance, last.exam_id) = <<>>
    /\ exercise_types(exam_exercise, last.exam_id) = {1, 2}

\* The position in the instance table of the k-th instance of an exam.
NthInstance(exam_id, k) ==
    CHOOSE n \in DOMAIN ExamExerciseInstance :
        /\ ExamExerciseInstance[n].exam_id = exam_id
        /\ Cardinality({m \in 1..n : ExamExerciseInstance[m].exam_id = exam_id}) = k

\* C16: get_full_exam answers 404 for an exam id that is missing or
\* soft-deleted and 200 otherwise, whatever the status, with one entry per
\* instance of the exam in the order of the instance table, each holding the
\* catalog name of the instance's type, its instructions and its stored items.
C16_FetchFull ==
    [][\A id \in ExamIds :
         get_full_exam(id)
         => IF id \notin DOMAIN Exam \/ Exam[id].date_deleted
            THEN last'.code = 404 /\ last'.result = NoResult
            ELSE LET count == Cardinality({n \in DOMAIN ExamExerciseInstance :
                                             ExamExerciseInstance[n].exam_id = id})
                     exercises == last'.result.exercises
                 IN  /\ last'.code = 200
                     /\ last'.result.status = Exam[id].status
                     /\ Len(exercises) = count
                     /\ \A k \in 1..count :
                           LET instance == ExamExerciseInstance[NthInstance(id, k)]
                           IN  /\ exercises[k].exercise_type
                                    = JString(Exercise[instance.exercise_type_id].name)
                               /\ exercises[k].instructions = instance.instructions
                               /\ <<Json(exercises[k].items)>> = instance.content_json]_vars

C16_Witness ==
    /\ last.op = "get_full_exam"
    /\ last.code = 200
    /\ last.result.status = "Pending Review"
    /\ Len(last.result.exercises) = 2
    /\ last.result.exercises[1].exercise_type = JString("Cloze")
    /\ last.result.exercises[2].exercise_type = JString("Reading Comprehension")
    /\ last.result.exercises[2].instructions = "Read and answer"

\* Reading a document: its second-level headings, its page breaks, and the
\* numbered lines between the k-th second-level heading and the next heading
\* or page break.
IsSectionHeading(e) ==
    (e.el = "Paragraph" /\ e.style = "Heading2") \/ (e.el = "heading" /\ e.style = "2")
IsPageBreak(e) == e.el \in {"PageBreak", "page_break"}
HeadingAt(document, k) ==
    CHOOSE i \in DOMAIN document :
        /\ IsSectionHeading(document[i])
        /\ Cardinality({j \in 1..i : IsSectionHeading(document[j])}) = k
NumberedLines(document, k) ==
    LET from == HeadingAt(document, k)
        stops == {i \in (from + 1)..Len(document) :
                     IsSectionHeading(document[i]) \/ IsPageBreak(document[i])}
        to == IF stops = {} THEN Len(document) + 1
              ELSE CHOOSE i \in stops : \A j \in stops : i <= j
    IN  SelectSeq(SubSeq(document, from + 1, to - 1),
                  LAMBDA e : e.el \in {"Paragraph", "paragraph"} /\ e.n > 0)

\* C17: in both formats a served document lists the instances in the order of
\* the instance table with the items of each numbered from 1, then exactly one
\* page break, then the same instances in the same order with the answers of
\* each numbered from 1.
C17_RenderingOrderAndNumbering ==
    \A op \in {"export_exam_pdf", "export_exam_docx"}, id \in ExamIds :
        exported(op, id).code = 200 =>
            LET document == exported(op, id).document
                count == Cardinality({n \in DOMAIN ExamExerciseInstance :
                                        ExamExerciseInstance[n].exam_id = id})
                breaks == {i \in DOMAIN document : IsPageBreak(document[i])}
            IN  /\ Cardinality(breaks) = 1
                /\ Cardinality({i \in DOMAIN document :
                                  IsSectionHeading(document[i])}) = 2 * count
                /\ \A k \in 1..count :
                      LET instance == ExamExerciseInstance[NthInstance(id, k)]
                          items == instance.content_json[1].value.elems
                          answers == instance.answer_key_json[1].value.answers
                          questions == NumberedLines(document, k)
                          solutions == NumberedLines(document, count + k)
                      IN  /\ \A b \in breaks : HeadingAt(document, k) < b
                                               /\ b < HeadingAt(document, count + k)
                          /\ document[HeadingAt(document, k)].text
                                = Exercise[instance.exercise_type_id].name
                          /\ document[HeadingAt(document, count + k)].text
                                = Exercise[instance.exercise_type_id].name
                          /\ Len(questions) = Len(items)
                          /\ \A i \in 1..Len(items) :
                                questions[i].n = i /\ questions[i].text = items[i].question
                          /\ Len(solutions) = Len(answers)
                          /\ \A i \in 1..Len(answers) :
                                solutions[i].n = i /\ solutions[i].text = answers[i]

C17_Witness ==
    /\ last.op = "export_exam_pdf"
    /\ last.code = 200
    /\ Cardinality({i \in DOMAIN last.document : IsSectionHeading(last.document[i])}) = 4
    /\ Len(NumberedLines(last.document, 1)) = 2
    /\ Len(NumberedLines(last.document, 2)) = 1
    /\ NumberedLines(last.document, 4)[1].text = "a teacher"

\* C18: rendering is read-only and a function of the stored rows: a
\* get_full_exam or export step changes no table, no pending request and no
\* id counter, and what either export and get_full_exam answer for any exam
\* is the same after the step as before it, so that an export repeated right
\* after a served export returns the same document.
C18_RenderingReadOnly ==
    [][\A id \in ExamIds :
         (get_full_exam(id) \/ export_exam_pdf(id) \/ export_exam_docx(id))
         => /\ Database' = Database
            /\ <<Class, Exercise, Exam, exam_exercise, ExamExerciseInstance>>'
                  = <<Class, Exercise, Exam, exam_exercise, ExamExerciseInstance>>
            /\ <<next_exam_id, pc, session>>' = <<next_exam_id, pc, session>>
            /\ \A other \in ExamIds :
                  /\ exported("export_exam_pdf", other)' = exported("export_exam_pdf", other)
                  /\ exported("export_exam_docx", other)' = exported("export_exam_docx", other)
                  /\ full_exam(other)' = full_exam(other)
            /\ (last.op = last'.op /\ last.exam_id = id /\ last.code = 200
                  /\ last.op \in {"export_exam_pdf", "export_exam_docx"})
                  => last'.document = last.document /\ last'.code = 200]_vars

C18_Witness ==
    /\ last.op = "export_exam_docx"
    /\ last.code = 200
    /\ Exam[last.exam_id].status = "GENERATED"
    /\ generated_exercises(ExamExerciseInstance, last.exam_id) # <<>>
    /\ last.document = exported("export_exam_docx", last.exam_id).document

\* A step of the generate request that worker p serves.
StepOf(p) ==
    \/ \E data \in ConcurrentBodies, flush_ok \in BOOLEAN :
          generate_exam_begin(p, data, flush_ok)
    \/ \E ok \in BOOLEAN : generate_exam_retrieve(p, ok)
    \/ generate_exam_llm_error(p)
    \/ \E raw_output \in ConcurrentOutputs, commit_ok \in BOOLEAN :
          generate_exam_finish(p, raw_output, commit_ok)

\* C19: overlapping generate requests each work on their own exam row: pending
\* requests hold different exam ids, none of them committed; the instances of
\* a committed exam are those of the blocks of its own snapshot, in order; a
\* step of one request changes no other request's session and no committed row
\* of another exam, a commit adds rows of the committing request's exam only,
\* and a failed request changes no committed row at all.
C19_RequestsAreIndependent ==
    /\ [](/\ \A p, q \in AllWorkers :
                (p # q /\ session[p].exam_id # 0)
                    => session[p].exam_id # session[q].exam_id
          /\ \A p \in AllWorkers :
                session[p].exam_id # 0 => session[p].exam_id \notin DOMAIN Exam
          /\ \A n \in DOMAIN ExamExerciseInstance :
                ExamExerciseInstance[n].exam_id \in DOMAIN Exam
          /\ \A id \in DOMAIN Exam :
                LET blocks == BlocksOf(Exam[id].generated_snapshot.text)
                    mine == generated_exercises(ExamExerciseInstance, id)
                IN  /\ Len(mine) = Len(blocks)
                    /\ \A k \in 1..Len(blocks) :
                          /\ mine[k].instructions = blocks[k].instructions
                          /\ mine[k].content_json = json_dumps(blocks[k].items))
    /\ [][\A p \in AllWorkers :
            StepOf(p)
            => /\ \A q \in AllWorkers \ {p} :
                     session'[q] = session[q] /\ pc'[q] = pc[q]
               /\ \A id \in DOMAIN Exam :
                     /\ id \in DOMAIN Exam' /\ Exam'[id] = Exam[id]
                     /\ generated_exercises(ExamExerciseInstance', id)
                           = generated_exercises(ExamExerciseInstance, id)
                     /\ exercise_types(exam_exercise', id) = exercise_types(exam_exercise, id)
               /\ DOMAIN Exam' \subseteq DOMAIN Exam \cup {session[p].exam_id}
               /\ \A n \in DOMAIN ExamExerciseInstance' :
                     n > Len(ExamExerciseInstance)
                         => ExamExerciseInstance'[n].exam_id = session[p].exam_id
               /\ last'.code # 201 => Database' = Database]_vars

C19_Witness ==
    /\ DOMAIN Exam = {2}
    /\ generated_exercises(ExamExerciseInstance, 2) # <<>>
    /\ last.code = 201 /\ last.exam_id = 2
    /\ \E p \in AllWorkers : pc[p] = "retrieved" /\ session[p].exam_id = 1

ExercisesNotAList(text) ==
    /\ extract_json(text).ok
    /\ json_loads(extract_json(text).text).ok
    /\ \/ ~json_loads(extract_json(text).text).value.has_exercises
       \/ json_loads(extract_json(text).text).value.exercises.kind # "list"

\* C22 (as claimed): generate fails and persists nothing whenever the parsed
\* object has no "exercises" key or its "exercises" is not a list (an object, a
\* string, a number, null, the empty string included).
C22_ExercisesMustBeAList ==
    [][\A p \in AllWorkers, raw_output \in LlmOutputs, commit_ok \in BOOLEAN :
         (generate_exam_finish(p, raw_output, commit_ok) /\ ExercisesNotAList(raw_output))
         => /\ last'.code \in {400, 500}
            /\ Database' = Database]_vars

\* Some block of the text lacks exercise_type, instructions or items, or some
\* item of some block lacks question or answer.
MissingField(text) ==
    /\ Parsable(text)
    /\ \E k \in 1..Len(BlocksOf(text)) :
          LET block == BlocksOf(text)[k]
          IN  /\ block.kind = "object"
              /\ "has_items" \in DOMAIN block
              /\ \/ ~block.has_exercise_type
                 \/ ~block.has_instructions
                 \/ ~block.has_items
                 \/ /\ Iterate(block.items).ok
                    /\ \E i \in 1..Len(Iterate(block.items).elems) :
                          LET item == Iterate(block.items).elems[i]
                          IN  /\ item.kind = "object"
                              /\ "has_question" \in DOMAIN item
                              /\ (~item.has_question \/ ~item.has_answer)

\* C23 (as claimed): generate fails and persists nothing whenever a block lacks
\* exercise_type, instructions or items or an item lacks question or answer,
\* and every item of every committed instance has a question.
C23_RequiredFieldsEnforced ==
    /\ [](\A n \in DOMAIN ExamExerciseInstance :
             \A i \in 1..Len(StoredItems(ExamExerciseInstance[n])) :
                 StoredItems(ExamExerciseInstance[n])[i].has_question)
    /\ [][\A p \in AllWorkers, raw_output \in LlmOutputs, commit_ok \in BOOLEAN :
            (generate_exam_finish(p, raw_output, commit_ok) /\ MissingField(raw_output))
            => /\ last'.code \in {400, 500}
               /\ Database' = Database]_vars

\* C24: a generate request runs a prefix of validate, create, retrieve,
\* generate, parse, commit, each step once: a request moves only from idle to
\* created, from created to retrieved or back to idle, and from retrieved to
\* idle; the retrieval and the generation service are called at most once per
\* request, the generation service only after a retrieval that succeeded, and
\* a refused model output ends the request after that one call.
C24_PipelineRunsOnce ==
    /\ [](/\ \A p \in AllWorkers :
                /\ pc[p] = "idle" => session[p] = NoSession
                /\ pc[p] = "created"
                      => session[p].rag_calls = 0 /\ session[p].llm_calls = 0
                /\ pc[p] = "retrieved"
                      => session[p].rag_calls = 1 /\ session[p].llm_calls = 0
          /\ last.op = "generate"
                => /\ last.rag_calls \in {0, 1}
                   /\ last.llm_calls \in {0, 1}
                   /\ last.llm_calls = 1 => last.rag_calls = 1
                   /\ ~last.raw_output.null => last.llm_calls = 1
                   /\ last.code = 201 => last.rag_calls = 1 /\ last.llm_calls = 1)
    /\ [][\A p \in AllWorkers :
            /\ pc'[p] # pc[p]
                  => <<pc[p], pc'[p]>> \in {<<"idle", "created">>, <<"created", "retrieved">>,
                                            <<"created", "idle">>, <<"retrieved", "idle">>}
            /\ generate_exam_retrieve(p, FALSE)
                  => pc'[p] = "idle" /\ last'.rag_calls = 1 /\ last'.llm_calls = 0
            /\ \A raw_output \in RefusedOutputs, commit_ok \in BOOLEAN :
                  generate_exam_finish(p, raw_output, commit_ok)
                      => /\ pc'[p] = "idle"
                         /\ session'[p] = NoSession
                         /\ last'.llm_calls = 1 /\ last'.rag_calls = 1]_vars

C24_Witness ==
    /\ last.op = "generate"
    /\ last.code = 400
    /\ last.message = "Exercise type not found in catalog"
    /\ last.rag_calls = 1
    /\ last.llm_calls = 1
    /\ \A p \in AllWorkers : pc[p] = "idle" /\ session[p] = NoSession

\* C25: the soft deletion of an exercise type is looked at only when the
\* request is validated: delete_exercise leaves every running request as it
\* is, and a request that passed validation and whose model output names
\* catalog rows is committed and answered 201 whether or not the requested or
\* the named rows have been soft-deleted meanwhile; its instances refer to the
\* named rows and its associations to the requested ones.
C25_DeletionCheckedAtValidationOnly ==
    [][/\ \A exercise_id \in ExerciseIds :
             delete_exercise(exercise_id) => pc' = pc /\ session' = session
       /\ \A p \in AllWorkers, raw_output \in CatalogAccepted :
             generate_exam_finish(p, raw_output, TRUE)
             => LET id == session[p].exam_id
                    blocks == BlocksOf(raw_output)
                    mine == generated_exercises(ExamExerciseInstance', id)
                IN  /\ last'.code = 201
                    /\ Len(mine) = Len(blocks)
                    /\ \A k \in 1..Len(blocks) :
                          mine[k].exercise_type_id \in SameLowered(blocks[k].exercise_type.s)
                    /\ exercise_types(exam_exercise', id)
                          = {session[p].exercise_types[i] :
                                i \in 1..Len(session[p].exercise_types)}]_vars

C25_Witness ==
    /\ last.op = "generate"
    /\ last.code = 201
    /\ Exercise[1].date_deleted
    /\ 1 \in exercise_types(exam_exercise, last.exam_id)
    /\ \E n \in DOMAIN ExamExerciseInstance :
          /\ ExamExerciseInstance[n].exam_id = last.exam_id
          /\ ExamExerciseInstance[n].exercise_type_id = 1

\* The logical elements of a document: its headings, its page breaks, its
\* numbered lines and its other lines of text, without the spacers of the PDF
\* story and without the class, date and blank lines of the DOCX body.
Logical(e) ==
    CASE IsPageBreak(e) -> [role |-> "page break", n |-> 0, text |-> ""]
      [] IsSectionHeading(e) -> [role |-> "type name", n |-> 0, text |-> e.text]
      [] e.style \in {"Heading1", "1"} -> [role |-> "title", n |-> 0, text |-> e.text]
      [] e.n > 0 -> [role |-> "numbered", n |-> e.n, text |-> e.text]
      [] OTHER -> [role |-> "text", n |-> 0, text |-> e.text]
RECURSIVE LogicalElements(_)
LogicalElements(document) ==
    IF document = <<>> THEN <<>>
    ELSE IF \/ Head(document).el = "Spacer"
            \/ /\ Head(document).el = "paragraph"
               /\ Head(document).text \in {"Class ID:", "Date:", "\n"}
    THEN LogicalElements(Tail(document))
    ELSE <<Logical(Head(document))>> \o LogicalElements(Tail(document))

\* C26: both exports are built from the same logical structure: for every
\* exam both answer with the same status, and the documents they serve have
\* the same sequence of logical elements: title, per instance the type name,
\* the instructions and the numbered items each followed by its options, one
\* page break, the answer-sheet title, per instance the type name and the
\* numbered answers.
C26_SameLogicalStructure ==
    \A id \in ExamIds :
        LET pdf == exported("export_exam_pdf", id)
            docx == exported("export_exam_docx", id)
        IN  /\ pdf.code = docx.code
            /\ pdf.code = 200 =>
                  /\ LogicalElements(pdf.document) = LogicalElements(docx.document)
                  /\ Head(LogicalElements(pdf.document))
                        = [role |-> "title", n |-> 0, text |-> "Exam"]
                  /\ Cardinality({i \in DOMAIN LogicalElements(docx.document) :
                                    LogicalElements(docx.document)[i].role = "page break"}) = 1

C26_Witness ==
    /\ last.op = "export_exam_docx"
    /\ last.code = 200
    /\ exported("export_exam_pdf", last.exam_id).code = 200
    /\ \E i \in DOMAIN last.document : last.document[i].style = "List Bullet"
    /\ Len(LogicalElements(last.document)) > 4

\* C28: a block is resolved against the whole catalog and not against the
\* types requested for the exam: whatever types were requested, a model output
\* whose blocks name catalog rows is committed with one instance per block
\* that refers to the named row, and the exam is associated with exactly the
\* requested ids.
C28_ResolvedAgainstWholeCatalog ==
    [][\A p \in AllWorkers, raw_output \in AcceptedOutputs :
         generate_exam_finish(p, raw_output, TRUE)
         => LET id == session[p].exam_id
                requested == {session[p].exercise_types[i] :
                                 i \in 1..Len(session[p].exercise_types)}
                blocks == BlocksOf(raw_output)
                mine == generated_exercises(ExamExerciseInstance', id)
            IN  /\ last'.code = 201
                /\ exercise_types(exam_exercise', id) = requested
                /\ Len(mine) = Len(blocks)
                /\ \A k \in 1..Len(blocks) :
                      mine[k].exercise_type_id \in SameLowered(blocks[k].exercise_type.s)]_vars

C28_Witness ==
    /\ last.op = "generate"
    /\ last.code = 201
    /\ exercise_types(exam_exercise, last.exam_id) = {1}
    /\ \E n \in DOMAIN ExamExerciseInstance :
          /\ ExamExerciseInstance[n].exam_id = last.exam_id
          /\ ExamExerciseInstance[n].exercise_type_id
                \notin exercise_types(exam_exercise, last.exam_id)

\* The text holds a JSON object without an "exercises" key.
NoExercisesKey(text) ==
    /\ extract_json(text).ok
    /\ json_loads(extract_json(text).text).ok
    /\ ~json_loads(extract_json(text).text).value.has_exercises

\* C29: no request is answered "Invalid exam structure returned by model": a
\* model output without an "exercises" key already fails in the parsing block
\* and is answered 500 "Model did not return valid JSON", with nothing
\* committed.
C29_InvalidStructureUnreachable ==
    /\ [](last.message # "Invalid exam structure returned by model")
    /\ [][\A p \in AllWorkers, raw_output \in LlmOutputs, commit_ok \in BOOLEAN :
            (generate_exam_finish(p, raw_output, commit_ok) /\ NoExercisesKey(raw_output))
            => /\ last'.code = 500
               /\ last'.message = "Model did not return valid JSON"
               /\ Database' = Database]_vars

C29_Witness ==
    /\ last.op = "generate"
    /\ last.code = 500
    /\ last.message = "Model did not return valid JSON"
    /\ ~last.raw_output.null
    /\ NoExercisesKey(last.raw_output.text)

----------------------------------------------------------------------------
\* A row that a soft delete has marked.
SoftDeleted(table, id) == id \in DOMAIN table /\ table[id].date_deleted # 0

\* What the answers say about the rows that are marked: get-by-id answers
\* 404, and the list of get-all leaves them out.
DeletedRowsHidden ==
    /\ last.op = "get_class_by_id" /\ SoftDeleted(Class, last.id) => last.code = 404
    /\ last.op = "get_level_by_id" /\ SoftDeleted(Level, last.id) => last.code = 404
    /\ last.op = "get_all_classes" =>
           \A row \in last.rows : ~SoftDeleted(Class, row.id)
    /\ last.op = "get_all_levels" =>
           \A row \in last.rows : ~SoftDeleted(Level, row.id)

\* One step of the class and level handlers: a soft delete of an active row
\* keeps the row and sets its date_deleted; a marked row keeps its
\* date_deleted whatever is served; a soft delete of a marked row answers 404.
SoftDeleteStep ==
    /\ \A id \in ClassIds :
           /\ delete_class(id) /\ id \in DOMAIN Class /\ Class[id].date_deleted = 0 =>
                  /\ last'.code = 200
                  /\ SoftDeleted(Class', id)
                  /\ Class' = [Class EXCEPT ![id].date_deleted = Class'[id].date_deleted]
           /\ SoftDeleted(Class, id) =>
                  /\ SoftDeleted(Class', id)
                  /\ Class'[id].date_deleted = Class[id].date_deleted
           /\ delete_class(id) /\ SoftDeleted(Class, id) =>
                  last'.code = 404 /\ Class' = Class
    /\ \A id \in LevelIds :
           /\ soft_delete_level(id) /\ id \in DOMAIN Level /\ Level[id].date_deleted = 0 =>
                  /\ last'.code = 200
                  /\ SoftDeleted(Level', id)
                  /\ Level' = [Level EXCEPT ![id].date_deleted = Level'[id].date_deleted]
           /\ SoftDeleted(Level, id) =>
                  /\ SoftDeleted(Level', id)
                  /\ Level'[id].date_deleted = Level[id].date_deleted
           /\ soft_delete_level(id) /\ SoftDeleted(Level, id) =>
                  last'.code = 404 /\ Level' = Level

\* C21: a soft delete of a Class or a Level keeps the row and sets its
\* date_deleted; from then on, whatever is served, get-by-id of the id answers
\* 404, get-all omits the row, a further soft delete answers 404, and the
\* date_deleted of the row is never cleared or overwritten.
C21_SoftDeleteIsFinal == []DeletedRowsHidden /\ [][SoftDeleteStep]_vars

\* A class and a level were soft-deleted in this run, more was served, and
\* the class has just been refused a second soft delete.
C21_Witness ==
    /\ last.op = "delete_class" /\ last.code = 404
    /\ SoftDeleted(Class, last.id) /\ Class[last.id].date_deleted >= 2
    /\ now > Class[last.id].date_deleted + 1
    /\ \E id \in DOMAIN Level : Level[id].date_deleted >= 2

----------------------------------------------------------------------------
\* The key under which the code of a request's email is stored.
KeyOf(data) == reset_code_key(normalize_email(data.email))

\* The codes stored under a key.
StoredCodes(store, key) == {entry[2] : entry \in {e \in store : e[1] = key}}

\* Every key is the key of a normalized email and holds one code.
OneCodePerEmail ==
    \A entry \in redis_client :
        /\ entry[1] = reset_code_key(entry[1][2])
        /\ StoredCodes(redis_client, entry[1]) = {entry[2]}

\* One step of the two handlers, seen from the key of the request.
ResetStep ==
    /\ \A data \in SendBodies, code \in ResetCodes, mail_ok \in BOOLEAN :
           send_reset_code_controller(data, code, mail_ok)
               /\ last'.code \notin {400, 404} =>
                   /\ StoredCodes(redis_client', KeyOf(data)) = {code}
                   /\ redis_delete(redis_client', KeyOf(data))
                         = redis_delete(redis_client, KeyOf(data))
    /\ \A data \in VerifyBodies :
           verify_reset_code_controller(data) =>
               /\ last'.code \in {200, 400}
               /\ last'.code = 200 =>
                      /\ StoredCodes(redis_client, KeyOf(data)) = {strip(data.code)}
                      /\ StoredCodes(redis_client', KeyOf(data)) = {}
                      /\ redis_client' = redis_delete(redis_client, KeyOf(data))
               /\ last'.code = 400 => redis_client' = redis_client
               /\ StoredCodes(redis_client, KeyOf(data)) = {} => last'.code = 400
    /\ \A key \in ResetKeys :
           StoredCodes(redis_client, key) = {} /\ StoredCodes(redis_client', key) # {} =>
               \E data \in SendBodies, code \in ResetCodes, mail_ok \in BOOLEAN :
                   /\ KeyOf(data) = key
                   /\ send_reset_code_controller(data, code, mail_ok)

\* C27: at most one reset code is stored for a normalized email; a send that
\* passes its checks replaces the code of the email; a verify that succeeds
\* removes the code, so that, as only a send stores a code again, a second
\* verify with the same code answers 400; a verify that fails leaves the
\* stored codes as they were.
C27_ResetCodeOneTime == []OneCodePerEmail /\ [][ResetStep]_vars

\* A code of ana@x.io was verified a moment ago and is gone, while the code of
\* another email is still stored.
C27_Witness ==
    /\ last.op = "verify_reset_code_controller" /\ last.code = 200
    /\ StoredCodes(redis_client, reset_code_key("ana@x.io")) = {}
    /\ StoredCodes(redis_client, reset_code_key("old@x.io")) # {}

----------------------------------------------------------------------------
\* C30: register_student never lets the number of the students of a class
\* that are not deleted exceed the max_capacity of the class, also when two
\* registrations for the class overlap between the count and the commit.
C30_CapacityNeverExceeded ==
    \A class_id \in DOMAIN Class :
        current_students(User, class_id) <= Class[class_id].max_capacity

====
